---------------------------- MODULE Spec2Model ----------------------------
(***************************************************************************)
(* Extension Manager: the security scanner (SecurityCheck) and the        *)
(* installer workflow (Controller.installExtension) that drives it.       *)
(*                                                                         *)
(* Source text is modelled as a sequence of lexical fragments (tokens);   *)
(* fragments are understood to be separated by blanks, so a regular       *)
(* expression of the catalog matches inside one fragment or, for the      *)
(* patterns that contain ".*", from one fragment to a later fragment of   *)
(* the same line.  The filesystem is a map from paths to file entries and *)
(* a map from scratch directory names to what was extracted into them.    *)
(* Every async function is split at its awaits: the code between two      *)
(* awaits is one atomic step, and steps of calls in flight interleave.    *)
(***************************************************************************)
EXTENDS Naturals, Integers, Sequences, FiniteSets, Bags, TLC

VARIABLES
    now,      \* Date.now(), in milliseconds
    files,    \* the files: path -> [content, by]
    dirs,     \* the scratch directories of the scan workspace
    calls,    \* the calls of scanVsix / installExtension, one record per call
    lastIndex,\* lastIndex of the RegExp objects isObfuscated made last
    content,  \* scanner under test: the text of the source file
    scanOut,  \* scanner under test: the issues scanExtractedCode returned
    pkg,      \* manifest check under test: the package.json
    depOut,   \* manifest check under test: the issues checkPackageJson returned
    statSize, \* size check under test: the size of the archive
    sizeOut,  \* size check under test: the issues of checkFileSize
    scanned,  \* formatter under test: the ScanResult
    report,   \* formatter under test: the lines formatUserFriendly returned
    extensionsDir, \* the entries of ~/.arduinoIDE/extensions
    deployedDir,   \* the entries of ~/.arduinoIDE/deployedPlugins
    disabledDir,   \* the entries of ~/.extensionmanager/disabled
    configDirs,    \* the directories an uninstall.json names, those that exist
    ops,      \* the calls of enable-, disable-, uninstallExtension
    parked,   \* of each plugin directory, what a disableExtension moved away
    upgraded, \* the last call of upgradeExtension and its result
    listing,  \* scanExtensions under test: what it returned
    archive,  \* classification under test: the name of the archive
    versions, \* classification under test: two versions
    classified \* classification under test: the action and the comparisons

(* The functions under test one by one, and their results. *)
tested == <<content, scanOut, pkg, depOut, statSize, sizeOut, scanned, report>>

(* The installed extensions and the calls that enable, disable and *)
(* uninstall them.                                                 *)
installed == <<extensionsDir, deployedDir, disabledDir, configDirs>>

lifecycle == <<installed, ops, parked, upgraded>>

(* scanExtensions and the classification under test. *)
units == <<listing, archive, versions, classified>>

vars == <<now, files, dirs, calls, lastIndex, tested, lifecycle, units>>

---------------------------------------------------------------------------
(* Bounds *)

NumCalls == 2

MaxClock == 1

MaxContentLen == 3

MaxDeps == 2

SizeSpan == 60

MaxIssues == 3

NumOps == 2

MaxParts == 4

MaxArchives == 2

---------------------------------------------------------------------------
(* Source text *)

NL == "\n"

Tokens ==
    { "os.homedir()", "'.ssh'", "'Documents'", "'.vscode'", "'.arduinoIDE'",
      "'.extensionmanager'", "'.myhelper'", ".hide(", NL, "x",
      "child_process.exec(", "eval(", "eval (", "atob(", "Function('",
      "'https://evil.example/x'", "'https://api.github.com/x'",
      "href='https://evil.example/x'", ".unlinkSync(", ".rmSync(", "recursive",
      "require('http:x')", "_0x1a2b", "\\x41", "['a']" }

(* The fragments in which a regular expression without ".*" matches. *)
SensitiveDir == { "'.ssh'", "'Documents'" }

(* A pattern: a match starts in a fragment of `start`; when `needs` is not *)
(* empty the pattern goes on with ".*" and a fragment of `needs` must      *)
(* follow on the same line, the match running (greedy) to the last such    *)
(* fragment; a fragment of `unless` later on the line (a negative          *)
(* lookahead with ".*") defeats the match.                                 *)
Pattern(start, needs, unless) == [start |-> start, needs |-> needs, unless |-> unless]

suspiciousPatterns ==
    << [pattern  |-> Pattern({"os.homedir()"}, SensitiveDir, {}),
        message  |-> "security.suspiciousPath", severity |-> "high"],
       [pattern  |-> Pattern({"child_process.exec("}, {}, {}),
        message  |-> "security.codeExecution", severity |-> "high"],
       [pattern  |-> Pattern({"eval(", "eval ("}, {}, {}),
        message  |-> "security.evalFound", severity |-> "critical"],
       [pattern  |-> Pattern({"Function('"}, {}, {}),
        message  |-> "security.dynamicFunction", severity |-> "critical"],
       [pattern  |-> Pattern({"'https://evil.example/x'"}, {},
                             {"'https://api.github.com/x'"}),
        message  |-> "security.unknownNetwork", severity |-> "medium"],
       [pattern  |-> Pattern({".unlinkSync("}, {}, {}),
        message  |-> "security.fileDelete", severity |-> "medium"],
       [pattern  |-> Pattern({"require('http:x')"}, {}, {}),
        message  |-> "security.remoteRequire", severity |-> "critical"] >>

(* /\.unlinkSync|\.rmdirSync|\.rmSync.*recursive/ has a second alternative *)
(* that spans fragments.                                                   *)
fileDeleteRecursive == Pattern({".rmSync("}, {"recursive"}, {})

allowedPaths ==
    << {"'.vscode'"},
       {"'.arduinoIDE'"},
       {"'.extensionmanager'"},
       {"'.arduinoIDE'", "'.extensionmanager'", "'.myhelper'", ".hide("} >>

(* i < j are on one line: "." does not match a line terminator. *)
SameLine(c, i, j) == \A k \in (i + 1)..j : c[k] # NL

(* The positions at which pattern p matches in c, as <<from, to>>. *)
MatchesAt(p, c, i) ==
    /\ c[i] \in p.start
    /\ p.needs # {} => \E j \in (i + 1)..Len(c) : c[j] \in p.needs /\ SameLine(c, i, j)
    /\ \A j \in (i + 1)..Len(c) : ~(c[j] \in p.unless /\ SameLine(c, i, j))

MatchEnd(p, c, i) ==
    IF p.needs = {} THEN i
    ELSE CHOOSE j \in (i + 1)..Len(c) :
            /\ c[j] \in p.needs /\ SameLine(c, i, j)
            /\ \A k \in (j + 1)..Len(c) : ~(c[k] \in p.needs /\ SameLine(c, i, k))

NoMatch == [found |-> FALSE, from |-> 0, to |-> 0]

(* String.prototype.match without the g flag: the leftmost match. *)
Match(p, c) ==
    IF \E i \in 1..Len(c) : MatchesAt(p, c, i)
    THEN LET i == CHOOSE i \in 1..Len(c) :
                     MatchesAt(p, c, i) /\ \A k \in 1..(i - 1) : ~MatchesAt(p, c, k)
         IN [found |-> TRUE, from |-> i, to |-> MatchEnd(p, c, i)]
    ELSE NoMatch

(* The leftmost match of an alternation p | q. *)
MatchEither(p, q, c) ==
    LET a == Match(p, c)
        b == Match(q, c)
    IN IF ~a.found THEN b
       ELSE IF ~b.found THEN a
       ELSE IF b.from < a.from THEN b ELSE a

MatchRule(k, c) ==
    IF suspiciousPatterns[k].message = "security.fileDelete"
    THEN MatchEither(suspiciousPatterns[k].pattern, fileDeleteRecursive, c)
    ELSE Match(suspiciousPatterns[k].pattern, c)

MatchedText(m, c) == SubSeq(c, m.from, m.to)

(* RegExp.prototype.test of an allow-list entry on a text. *)
TestEntry(entry, text) == \E i \in 1..Len(text) : text[i] \in entry

isAllowedPathWholeFile(c, match) ==
    \E k \in 1..Len(allowedPaths) : TestEntry(allowedPaths[k], c)

isAllowedPath(c, match) ==
    \E k \in 1..Len(allowedPaths) : TestEntry(allowedPaths[k], match)

(* The four indicators of isObfuscated. *)
indicators ==
    << Pattern({"_0x1a2b"}, {}, {}),
       Pattern({"\\x41"}, {}, {}),
       Pattern({"eval("}, {"atob("}, {}),
       Pattern({"['a']"}, {}, {}) >>

(* The flags of the four regular expression literals. *)
indicatorFlags == << "i", "i", "", "g" >>

(* RegExp.prototype.test on an object whose lastIndex is li: with the g   *)
(* flag the search starts behind li and leaves lastIndex behind the match *)
(* or at 0; without it lastIndex is neither read nor written.             *)
Test(p, flags, c, li) ==
    IF flags # "g" THEN [found |-> Match(p, c).found, lastIndex |-> li]
    ELSE IF \E i \in (li + 1)..Len(c) : MatchesAt(p, c, i)
    THEN LET i == CHOOSE i \in (li + 1)..Len(c) :
                     MatchesAt(p, c, i) /\ \A k \in (li + 1)..(i - 1) : ~MatchesAt(p, c, k)
         IN [found |-> TRUE, lastIndex |-> MatchEnd(p, c, i)]
    ELSE [found |-> FALSE, lastIndex |-> 0]

indicatorObjectsKept(previous) == previous

(* const indicators = [...]: every call of isObfuscated evaluates the     *)
(* literals anew, which makes objects with lastIndex 0, whatever the      *)
(* objects of the call before (previous) ended with.                      *)
indicatorObjects(previous) == [k \in 1..Len(indicators) |-> 0]

(* indicator.test(content) for the four objects of this call. *)
TestIndicators(c, previous) ==
    [k \in 1..Len(indicators) |->
        Test(indicators[k], indicatorFlags[k], c, indicatorObjects(previous)[k])]

isObfuscatedAny(c, previous) ==
    Cardinality({ k \in 1..Len(indicators) : TestIndicators(c, previous)[k].found }) >= 1

isObfuscated(c, previous) ==
    Cardinality({ k \in 1..Len(indicators) : TestIndicators(c, previous)[k].found }) >= 2

(* lastIndex of the objects when isObfuscated returns. *)
IndicatorsAfter(c, previous) ==
    [k \in 1..Len(indicators) |-> TestIndicators(c, previous)[k].lastIndex]

NoFile == [dirs |-> << >>, name |-> "", ext |-> ""]

(* path.relative(extractedPath, file) *)
RelativePath(f) == [dirs |-> f.dirs, name |-> f.name, ext |-> f.ext]

NoDetails == [text |-> "", tenths |-> 0]

Issue(severity, message, file, match, details, fullContent) ==
    [severity |-> severity, message |-> message, file |-> file, match |-> match,
     details |-> details, fullContent |-> fullContent]

RECURSIVE RuleIssuesFirstOnly(_, _, _)
RuleIssuesFirstOnly(k, file, c) ==
    IF k > Len(suspiciousPatterns) THEN << >>
    ELSE LET check == suspiciousPatterns[k]
             m     == MatchRule(k, c)
             skip  == /\ check.message = "security.suspiciousPath"
                      /\ isAllowedPath(c, MatchedText(m, c))
         IN IF m.found /\ ~skip
            THEN << Issue(check.severity, check.message, file,
                          MatchedText(m, c), NoDetails, c) >>
            ELSE RuleIssuesFirstOnly(k + 1, file, c)

(* The issues of rules k..7 for one file, in rule order. *)
RECURSIVE RuleIssues(_, _, _)
RuleIssues(k, file, c) ==
    IF k > Len(suspiciousPatterns) THEN << >>
    ELSE LET check == suspiciousPatterns[k]
             m     == MatchRule(k, c)
             skip  == /\ check.message = "security.suspiciousPath"
                      /\ isAllowedPath(c, MatchedText(m, c))
         IN (IF m.found /\ ~skip
             THEN << Issue(check.severity, check.message, file,
                           MatchedText(m, c), NoDetails, c) >>
             ELSE << >>) \o RuleIssues(k + 1, file, c)

(* The body of the loop of scanExtractedCode for one file. *)
ScanFile(f, previous) ==
    IF ~f.readable THEN << >>
    ELSE RuleIssues(1, RelativePath(f), f.content)
         \o (IF isObfuscated(f.content, previous)
             THEN << Issue("high", "security.obfuscatedCode", RelativePath(f), << >>,
                           NoDetails, << >>) >>
             ELSE << >>)

(* The loop of scanExtractedCode: the issues, and lastIndex of the      *)
(* objects of the last call of isObfuscated.                            *)
RECURSIVE ScanFiles(_, _)
ScanFiles(fs, previous) ==
    IF fs = << >> THEN [issues |-> << >>, objects |-> previous]
    ELSE LET f    == Head(fs)
             rest == ScanFiles(Tail(fs), IF f.readable
                                         THEN IndicatorsAfter(f.content, previous)
                                         ELSE previous)
         IN [issues |-> ScanFile(f, previous) \o rest.issues, objects |-> rest.objects]

---------------------------------------------------------------------------
(* Bundles: what an archive holds *)

SourceFile(dir, name, ext, readable, c) ==
    [dirs |-> dir, name |-> name, ext |-> ext, readable |-> readable, content |-> c]

NoManifest == [state |-> "missing", displayName |-> "", name |-> "",
               dependencies |-> << >>, devDependencies |-> << >>]

Manifest(state, displayName, name, deps, devDeps) ==
    [state |-> state, displayName |-> displayName, name |-> name,
     dependencies |-> deps, devDependencies |-> devDeps]

Dep(name, version) == [name |-> name, version |-> version]

(* The order in which readdirSync lists what several archives left in one *)
(* directory.                                                             *)
ContentOrder == << "bad", "big", "clean", "evil", "mixed" >>

Bundle(id) ==
    CASE id = "evil" ->
           [tree |-> << SourceFile(<<"extension", "out">>, "evil", ".js", TRUE,
                                   << "eval(", "x" >>),
                        SourceFile(<<"extension", "node_modules", "dep">>, "index", ".js",
                                   TRUE, << "child_process.exec(" >>) >>,
            manifest |-> Manifest("valid", "", "evil-extension",
                                  << Dep("keytar", "^7.0.0") >>, << >>),
            size |-> 40000]
      [] id = "clean" ->
           [tree |-> << SourceFile(<<"extension", "out">>, "extension", ".js", TRUE,
                                   << "x", "'https://api.github.com/x'" >>),
                        SourceFile(<<"extension">>, "README", ".md", TRUE,
                                   << "eval(" >>) >>,
            manifest |-> Manifest("valid", "Clean", "clean", << >>, << >>),
            size |-> 36864]
      [] id = "big" ->
           [tree |-> << SourceFile(<<"extension", "out">>, "blob", ".js", FALSE,
                                   << "eval(" >>) >>,
            manifest |-> NoManifest,
            size |-> 52428801]
      [] id = "bad" ->
           [tree |-> << SourceFile(<<"extension">>, "main", ".js", TRUE,
                                   << "os.homedir()", "'.ssh'", "\\x41", "['a']" >>) >>,
            manifest |-> Manifest("invalid", "", "", << >>, << >>),
            size |-> 1024]
      [] id = "mixed" ->
           [tree |-> << SourceFile(<<"extension">>, "a", ".js", TRUE,
                                   << "eval(", "atob(", "_0x1a2b" >>),
                        SourceFile(<<"extension", "out">>, "b", ".js", TRUE,
                                   << ".unlinkSync(", "eval (" >>),
                        SourceFile(<<"extension", "out", "lib", "node_modules", "pkg">>,
                                   "c", ".js", TRUE, << "Function('" >>) >>,
            manifest |-> Manifest("valid", "Mixed", "mixed",
                                  << Dep("ssh-exec", "*"), Dep("ssh2", "^1.1.0") >>,
                                  << Dep("ssh2", "^1.1.0") >>),
            size |-> 60000000]

---------------------------------------------------------------------------
(* Paths and the filesystem *)

Path(dir, stem, ext) == [dir |-> dir, stem |-> stem, ext |-> ext]

(* this.checkDir = ~/.extensionmanager/check *)
checkDir == "check"

BundlePaths ==
    { Path("dl", "a", ".vsix"), Path("alt", "a", ".vsix"), Path(checkDir, "c", ".vsix"),
      Path("dl", "d", ".zip"), Path("dl", "e", ".vsix"), Path("dl", "missing", ".vsix") }

(* path.join(this.checkDir, path.basename(vsixPath)) *)
StagedPath(vsixPath) == Path(checkDir, vsixPath.stem, vsixPath.ext)

AllPaths == BundlePaths \cup { StagedPath(p) : p \in BundlePaths }

NoContent == "none"

(* `by` is the call that wrote the file, 0 for a file that was there before. *)
FileEntry(c, by) == [content |-> c, by |-> by]

InitFiles ==
    [p \in AllPaths |->
        IF p = Path("dl", "a", ".vsix") THEN FileEntry("evil", 0)
        ELSE IF p = Path("alt", "a", ".vsix") THEN FileEntry("clean", 0)
        ELSE IF p = Path(checkDir, "c", ".vsix") THEN FileEntry("big", 0)
        ELSE IF p = Path("dl", "d", ".zip") THEN FileEntry("bad", 0)
        ELSE IF p = Path("dl", "e", ".vsix") THEN FileEntry("mixed", 0)
        ELSE FileEntry(NoContent, 0)]

existsSync(fsys, p) == fsys.files[p].content # NoContent

endsWith(p, ext) == p.ext = ext

DirNames == {"temp-", "info-extract-"} \X (0..MaxClock)

NoDir == [exists |-> FALSE, code |-> {}, manifestOf |-> NoContent]

InitDirs == [d \in DirNames |-> NoDir]

FS == [files |-> files, dirs |-> dirs]

(* fs.copyFileSync(src, dst) by call `who`: the outcomes.  Copying a file  *)
(* onto itself succeeds and changes nothing or fails, by platform.         *)
copyFileSync(fsys, src, dst, who) ==
    IF ~existsSync(fsys, src) THEN { [ok |-> FALSE, fs |-> fsys] }
    ELSE IF src = dst THEN { [ok |-> TRUE, fs |-> fsys], [ok |-> FALSE, fs |-> fsys] }
    ELSE { [ok |-> TRUE,
            fs |-> [fsys EXCEPT !.files[dst] = FileEntry(fsys.files[src].content, who)]] }

(* fs.unlinkSync *)
unlinkSync(fsys, p) == [fsys EXCEPT !.files[p] = FileEntry(NoContent, 0)]

(* cleanup(tempDir): the scratch directory, then every .vsix of checkDir. *)
cleanup(fsys, tempDir) ==
    [files |-> [p \in AllPaths |->
                   IF p.dir = checkDir /\ endsWith(p, ".vsix")
                   THEN FileEntry(NoContent, 0) ELSE fsys.files[p]],
     dirs  |-> [fsys.dirs EXCEPT ![tempDir] = NoDir]]

(* The package.json in a directory after the archive c was unpacked into *)
(* it: an archive without one leaves what was there.                     *)
ManifestAfter(d, c, overwrite) ==
    IF Bundle(c).manifest.state = "missing" THEN d.manifestOf
    ELSE IF d.manifestOf = NoContent \/ overwrite THEN c
    ELSE d.manifestOf

(* extractVsix(vsixPath, targetDir).  unzipOk and tarOk are what the two   *)
(* external tools would answer; overwrite says whether a manifest already  *)
(* in targetDir is replaced.                                               *)
extractVsixNoFallback(fsys, vsixPath, targetDir, unzipOk, tarOk, overwrite) ==
    LET d    == fsys.dirs[targetDir]
        c    == fsys.files[vsixPath].content
        made == [d EXCEPT !.exists = TRUE]
    IN [ok    |-> unzipOk,
        tools |-> << "unzip" >>,
        fs    |-> [fsys EXCEPT !.dirs[targetDir] =
                     IF unzipOk
                     THEN [exists |-> TRUE, code |-> d.code \cup {c},
                           manifestOf |-> ManifestAfter(d, c, overwrite)]
                     ELSE made]]

extractVsix(fsys, vsixPath, targetDir, unzipOk, tarOk, overwrite) ==
    LET d    == fsys.dirs[targetDir]
        c    == fsys.files[vsixPath].content
        made == [d EXCEPT !.exists = TRUE]
        ok   == unzipOk \/ tarOk
    IN [ok    |-> ok,
        tools |-> IF unzipOk THEN << "unzip" >> ELSE << "unzip", "tar" >>,
        fs    |-> [fsys EXCEPT !.dirs[targetDir] =
                     IF ok
                     THEN [exists |-> TRUE, code |-> d.code \cup {c},
                           manifestOf |-> ManifestAfter(d, c, overwrite)]
                     ELSE made]]

(* findJsFiles: the .js files of a tree outside every node_modules. *)
InNodeModulesParentOnly(f) == f.dirs # << >> /\ f.dirs[Len(f.dirs)] = "node_modules"

InNodeModules(f) == \E i \in 1..Len(f.dirs) : f.dirs[i] = "node_modules"

IsJsFile(f) == f.ext = ".js" /\ ~InNodeModules(f)

findJsFiles(tree) == SelectSeq(tree, IsJsFile)

RECURSIVE TreeOf(_, _)
TreeOf(code, k) ==
    IF k > Len(ContentOrder) THEN << >>
    ELSE (IF ContentOrder[k] \in code THEN Bundle(ContentOrder[k]).tree ELSE << >>)
         \o TreeOf(code, k + 1)

(* scanExtractedCode(extractedPath): readdirSync throws when the directory *)
(* is gone.                                                                *)
scanExtractedCode(fsys, extractedPath, previous) ==
    LET d == fsys.dirs[extractedPath]
        r == ScanFiles(findJsFiles(TreeOf(d.code, 1)), previous)
    IN IF ~d.exists THEN [ok |-> FALSE, issues |-> << >>, objects |-> previous]
       ELSE [ok |-> TRUE, issues |-> r.issues, objects |-> r.objects]

ManifestIn(fsys, extractedPath) ==
    LET d == fsys.dirs[extractedPath]
    IN IF d.exists /\ d.manifestOf # NoContent
       THEN Bundle(d.manifestOf).manifest ELSE NoManifest

suspiciousDeps == << "keytar", "node-keytar", "ssh2", "ssh-exec" >>

(* { ...dependencies, ...devDependencies }[dep]: the later entry wins. *)
Lookup(deps, name) ==
    IF \E i \in 1..Len(deps) : deps[i].name = name
    THEN deps[CHOOSE i \in 1..Len(deps) :
                 deps[i].name = name /\ \A j \in (i + 1)..Len(deps) : deps[j].name # name].version
    ELSE ""

RECURSIVE DepIssues(_, _)
DepIssues(allDeps, k) ==
    IF k > Len(suspiciousDeps) THEN << >>
    ELSE (IF Lookup(allDeps, suspiciousDeps[k]) # ""
          THEN << Issue("medium", "security.suspiciousDependency", NoFile, << >>,
                        [text |-> suspiciousDeps[k], tenths |-> 0], << >>) >>
          ELSE << >>) \o DepIssues(allDeps, k + 1)

(* checkPackageJson on the manifest m: nothing when it is missing or does *)
(* not parse.                                                            *)
PackageIssues(m) ==
    IF m.state # "valid" THEN << >>
    ELSE DepIssues(m.dependencies \o m.devDependencies, 1)

checkPackageJson(fsys, extractedPath) == PackageIssues(ManifestIn(fsys, extractedPath))

MaxSizeMB == 50

BytesPerMB == 1048576

(* sizeMB.toFixed(1), in tenths of a megabyte, rounded to nearest. *)
toFixed1(bytes) == (bytes * 10 + BytesPerMB \div 2) \div BytesPerMB

(* checkFileSize(vsixPath): statSync throws when the file is gone. *)
SizeIssuesFrom50(size) ==
    IF size >= MaxSizeMB * BytesPerMB
    THEN << Issue("low", "security.largeFile", NoFile, << >>,
                  [text |-> "MB", tenths |-> toFixed1(size)], << >>) >>
    ELSE << >>

(* stats.size / (1024 * 1024) > 50: the quotient is exact in a double for *)
(* every size near the limit, so the test is one on the bytes.            *)
SizeIssues(size) ==
    IF size > MaxSizeMB * BytesPerMB
    THEN << Issue("low", "security.largeFile", NoFile, << >>,
                  [text |-> "MB", tenths |-> toFixed1(size)], << >>) >>
    ELSE << >>

checkFileSize(fsys, vsixPath) ==
    IF ~existsSync(fsys, vsixPath) THEN [ok |-> FALSE, issues |-> << >>]
    ELSE [ok |-> TRUE, issues |-> SizeIssues(Bundle(fsys.files[vsixPath].content).size)]

(* pkg.displayName || pkg.name, null when there is no readable manifest. *)
ExtensionNameIn(fsys, extractedPath) ==
    LET m == ManifestIn(fsys, extractedPath)
    IN IF m.state # "valid" THEN ""
       ELSE IF m.displayName # "" THEN m.displayName ELSE m.name

RECURSIVE Messages(_)
Messages(issues) ==
    IF issues = << >> THEN << >> ELSE << Head(issues).message >> \o Messages(Tail(issues))

ScanResultIgnoringLow(issues, extensionName) ==
    [safe |-> \A i \in 1..Len(issues) : issues[i].severity # "low",
     issues |-> issues, details |-> Messages(issues), extensionName |-> extensionName]

ScanResult(issues, extensionName) ==
    [safe |-> Len(issues) = 0,
     issues |-> issues, details |-> Messages(issues), extensionName |-> extensionName]

---------------------------------------------------------------------------
(* The report: formatUserFriendly *)

(* A line of the report.  The translated texts are not part of the       *)
(* sources; a text is stood for by the key it is looked up with.         *)
Line(kind, key, inline) == [kind |-> kind, key |-> key, inline |-> inline]

NoInline == [text |-> "", tenths |-> 0]

BlankLine == Line("blank", "", NoInline)

(* What /(?<![\\/])['"`](\.[\w]+)(?:[\-\\/]|['"`])/g captures in a fragment. *)
DotName(token) ==
    CASE token = "'.ssh'" -> ".ssh"
      [] token = "'.vscode'" -> ".vscode"
      [] token = "'.arduinoIDE'" -> ".arduinoIDE"
      [] token = "'.extensionmanager'" -> ".extensionmanager"
      [] token = "'.myhelper'" -> ".myhelper"
      [] OTHER -> ""

(* String.prototype.length of the captures. *)
Length(name) ==
    CASE name = ".ssh" -> 4
      [] name = ".vscode" -> 7
      [] name = ".arduinoIDE" -> 11
      [] name = ".extensionmanager" -> 17
      [] name = ".myhelper" -> 9
      [] OTHER -> 0

MinDirLength == 5

(* '~/' + match[1].substring(1) *)
HomePath(name) ==
    CASE name = ".ssh" -> "~/ssh"
      [] name = ".vscode" -> "~/vscode"
      [] name = ".arduinoIDE" -> "~/arduinoIDE"
      [] name = ".extensionmanager" -> "~/extensionmanager"
      [] name = ".myhelper" -> "~/myhelper"

(* Array.prototype.sort without a comparator: by UTF-16 code units. *)
SortOrder == << "~/arduinoIDE", "~/extensionmanager", "~/myhelper", "~/ssh", "~/vscode" >>

sort(paths) ==
    LET In(x) == \E i \in 1..Len(paths) : paths[i] = x
    IN SelectSeq(SortOrder, In)

(* A Set as the sequence of its elements in the order they were added. *)
RECURSIVE AddAll(_, _)
AddAll(set, values) ==
    IF values = << >> THEN set
    ELSE AddAll(IF \E i \in 1..Len(set) : set[i] = Head(values)
                THEN set ELSE Append(set, Head(values)),
                Tail(values))

(* The directories of getIssueDescription, as they are added to the Set. *)
RECURSIVE directories(_)
directories(fullContent) ==
    IF fullContent = << >> THEN << >>
    ELSE LET name == DotName(Head(fullContent))
         IN AddAll(IF name # "" /\ Length(name) - 1 >= MinDirLength
                   THEN << HomePath(name) >> ELSE << >>,
                   directories(Tail(fullContent)))

(* description.slice(1) of getIssueDescription(issue): the sub-items, *)
(* none when it returns a string.                                     *)
getIssueDescription(issue) ==
    IF issue.message = "security.fileDelete" /\ issue.fullContent # << >>
    THEN sort(directories(issue.fullContent))
    ELSE << >>

(* The first fragment of the match in which                           *)
(* /['"](\.ssh|\.aws|\.gnupg|Documents|Desktop|Downloads)['"]/ matches. *)
pathMatch(match) ==
    LET hits == SelectSeq(match, LAMBDA t : t \in SensitiveDir)
    IN IF hits = << >> THEN "" ELSE Head(hits)

getIssueDescriptionLabel(issue) ==
    Line("main", issue.message,
         IF issue.message = "security.suspiciousPath" /\ issue.match # << >>
         THEN [text |-> pathMatch(issue.match), tenths |-> 0]
         ELSE IF issue.details # NoDetails THEN issue.details
         ELSE NoInline)

(* Object.keys(grouped): the message keys in the order of their first issue. *)
RECURSIVE Keys(_)
Keys(issues) ==
    IF issues = << >> THEN << >>
    ELSE AddAll(<< Head(issues).message >>, Keys(Tail(issues)))

RECURSIVE PathsOf(_)
PathsOf(issueGroup) ==
    IF issueGroup = << >> THEN << >>
    ELSE AddAll(getIssueDescription(Head(issueGroup)), PathsOf(Tail(issueGroup)))

allPathsFirstOnly(issueGroup) == getIssueDescription(issueGroup[1])

(* allPaths: the sub-items of every issue of the group. *)
allPaths(issueGroup) == PathsOf(issueGroup)

SubLines(paths) == [i \in 1..Len(paths) |-> Line("sub", "", [text |-> paths[i], tenths |-> 0])]

(* The lines of a group with the main line of its last issue. *)
GroupLinesOfLast(issueGroup) ==
    << getIssueDescriptionLabel(issueGroup[Len(issueGroup)]) >>
    \o SubLines(sort(allPaths(issueGroup)))

(* The lines of one group: the main line, then the paths, sorted. *)
GroupLines(issueGroup) ==
    << getIssueDescriptionLabel(issueGroup[1]) >> \o SubLines(sort(allPaths(issueGroup)))

RECURSIVE GroupsLines(_, _)
GroupsLines(keys, issues) ==
    IF keys = << >> THEN << >>
    ELSE GroupLines(SelectSeq(issues, LAMBDA i : i.message = Head(keys)))
         \o GroupsLines(Tail(keys), issues)

displayIssues(issues) == GroupsLines(Keys(issues), issues)

severityOrderLowFirst == << "low", "medium", "high", "critical" >>

(* The order of the four blocks of formatUserFriendly. *)
severityOrder == << "critical", "high", "medium", "low" >>

RECURSIVE Sections(_, _)
Sections(severities, issues) ==
    IF severities = << >> THEN << >>
    ELSE LET of == SelectSeq(issues, LAMBDA i : i.severity = Head(severities))
         IN (IF of = << >> THEN << >>
             ELSE << Line("header", Head(severities), NoInline) >>
                  \o displayIssues(of) \o << BlankLine >>)
            \o Sections(Tail(severities), issues)

formatUserFriendly(scanResult) ==
    IF scanResult.safe THEN << Line("noIssues", "security.noIssues", NoInline) >>
    ELSE << Line("legend", "security.severity.legend", NoInline), BlankLine >>
         \o Sections(severityOrder, scanResult.issues)

---------------------------------------------------------------------------
(* Enabling, disabling and uninstalling: controller.js, scanner.js *)

selfId == "MonsterMaker.extension-manager"

(* The plugin directories there are: of the manager, and of one other   *)
(* extension in two versions.  A plugin directory has the name of the   *)
(* archive it was deployed from, as the first installation of the       *)
(* manager has it (installer/install_extensionmanager_macos.sh).        *)
managerDir == "extension-manager"

toolDir == "vendor.tool-1.0.0"

newToolDir == "vendor.tool-1.1.0"

PluginDirs == {managerDir, toolDir, newToolDir}

VsixFileName(dirName) == dirName \o ".vsix"

VsixFiles == { VsixFileName(d) : d \in PluginDirs }

(* The archives there are: those of the plugin directories, and others *)
(* of the other extension.                                             *)
ArchiveNames ==
    VsixFiles \cup { "vendor.tool-1.10.0.vsix", "vendor.tool-01.1.0.vsix",
                     "vendor.tool.vsix", "a.vsix" }

(* What the uninstall.json of the other extension lists. *)
toolConfigDir == "~/.tool"

toolConfigFile == "~/.toolrc"

(* What an uninstall.json can name: the two paths, and the keys of the *)
(* global state and of the settings.                                   *)
Configured == { toolConfigDir, toolConfigFile, "globalState", "settings" }

(* A directory is a function from the names of its entries.  The value *)
(* for a plugin directory is the set of the files under it, the value  *)
(* for an archive is File.                                             *)
File == { "." }

EmptyDir == << >>

Has(dir, name) == name \in DOMAIN dir

Put(dir, name, what) ==
    [n \in DOMAIN dir \cup {name} |-> IF n = name THEN what ELSE dir[n]]

Drop(dir, names) == [n \in DOMAIN dir \ names |-> dir[n]]

(* The files of a plugin directory, in the order in which readdirSync *)
(* lists them.                                                        *)
PackageFiles(dirName) ==
    IF dirName = managerDir THEN << "package.json" >>
    ELSE << "package.json", "uninstall.json" >>

Whole(dirName) == { PackageFiles(dirName)[i] : i \in 1..Len(PackageFiles(dirName)) }

(* publisher.name of extension/package.json, and what extension/uninstall.json *)
(* lists.                                                                      *)
Packages ==
    [d \in PluginDirs |->
        IF d = managerDir
        THEN [id |-> selfId, directories |-> << >>, files |-> << >>,
              globalState |-> FALSE, settings |-> FALSE]
        ELSE [id |-> "vendor.tool", directories |-> << toolConfigDir >>,
              files |-> << toolConfigFile >>, globalState |-> TRUE, settings |-> TRUE]]

(* What /^(.+?)\.(.+?)-(\d+\.\d+\.\d+)\.vsix$/ finds in the name of an *)
(* archive: nothing in a name without publisher or version.            *)
VsixIds ==
    [f \in { VsixFileName(toolDir), VsixFileName(newToolDir),
             "vendor.tool-1.10.0.vsix", "vendor.tool-01.1.0.vsix" } |-> "vendor.tool"]

(* The names in the order in which readdirSync lists them. *)
EntryNames ==
    << "a.vsix", managerDir, VsixFileName(managerDir), "vendor.tool-01.1.0.vsix",
       toolDir, VsixFileName(toolDir), newToolDir, VsixFileName(newToolDir),
       "vendor.tool-1.10.0.vsix", "vendor.tool.vsix" >>

readdirSync(dir) == SelectSeq(EntryNames, LAMBDA n : Has(dir, n))

isDirectory(dir, name) == dir[name] # File

endsWithVsix(name) == name \in ArchiveNames

NoPath == ""

null == [id |-> "", status |-> "", vsixFile |-> NoPath,
         deployedPath |-> NoPath, disabledPath |-> NoPath]

parseVsixExtension(vsixFile) ==
    IF vsixFile \in DOMAIN VsixIds
    THEN [id |-> VsixIds[vsixFile], status |-> "disabled", vsixFile |-> vsixFile,
          deployedPath |-> NoPath, disabledPath |-> NoPath]
    ELSE null

parseDeployedExtension(dir, dirName) ==
    IF "package.json" \in dir[dirName]
    THEN [id |-> Packages[dirName].id, status |-> "enabled", vsixFile |-> NoPath,
          deployedPath |-> dirName, disabledPath |-> NoPath]
    ELSE null

parseDisabledExtension(dir, dirName) ==
    IF "package.json" \in dir[dirName]
    THEN [id |-> Packages[dirName].id, status |-> "disabled", vsixFile |-> NoPath,
          deployedPath |-> NoPath, disabledPath |-> dirName]
    ELSE null

(* The entries for the archives of a directory. *)
VsixExtensions(dir) ==
    LET vsixFiles == SelectSeq(readdirSync(dir), endsWithVsix)
        parsed == [i \in 1..Len(vsixFiles) |-> parseVsixExtension(vsixFiles[i])]
    IN SelectSeq(parsed, LAMBDA ext : ext # null)

(* findIndex(e => e.id === id), counted from 1; 0 where there is none. *)
existingIndex(extensions, id) ==
    IF \E i \in 1..Len(extensions) : extensions[i].id = id
    THEN CHOOSE i \in 1..Len(extensions) :
            extensions[i].id = id /\ \A j \in 1..(i - 1) : extensions[j].id # id
    ELSE 0

RECURSIVE MergeDeployed(_, _, _)
MergeDeployed(extensions, dir, dirNames) ==
    IF dirNames = << >> THEN extensions
    ELSE LET ext == parseDeployedExtension(dir, Head(dirNames))
             k == existingIndex(extensions, ext.id)
         IN MergeDeployed(
                IF ext = null THEN extensions
                ELSE IF k > 0
                THEN [extensions EXCEPT ![k].status = "enabled",
                                        ![k].deployedPath = Head(dirNames)]
                ELSE Append(extensions, ext),
                dir, Tail(dirNames))

RECURSIVE MergeDisabled(_, _, _)
MergeDisabled(extensions, dir, dirNames) ==
    IF dirNames = << >> THEN extensions
    ELSE LET ext == parseDisabledExtension(dir, Head(dirNames))
             k == existingIndex(extensions, ext.id)
         IN MergeDisabled(
                IF ext = null THEN extensions
                ELSE IF k > 0
                THEN [extensions EXCEPT ![k].status = "disabled",
                                        ![k].disabledPath = Head(dirNames)]
                ELSE Append(extensions, ext),
                dir, Tail(dirNames))

(* scanExtensions of three directories, before its sort by name: the    *)
(* entries of one id that come from archives have one name and the sort *)
(* is stable, so the first entry of an id stays the first.              *)
ExtensionsIn(extDir, depDir, disDir) ==
    MergeDisabled(
        MergeDeployed(VsixExtensions(extDir) \o VsixExtensions(disDir), depDir,
                      SelectSeq(readdirSync(depDir), LAMBDA n : isDirectory(depDir, n))),
        disDir,
        SelectSeq(readdirSync(disDir), LAMBDA n : isDirectory(disDir, n)))

scanExtensions == ExtensionsIn(extensionsDir, deployedDir, disabledDir)

getExtensionById(extensionId) ==
    LET extensions == scanExtensions
        k == existingIndex(extensions, extensionId)
    IN IF k = 0 THEN null ELSE extensions[k]


(* What can go wrong in the filesystem during one operation: nothing;   *)
(* renameSync of a directory fails, so that moveDirectory copies and    *)
(* deletes; the mkdirSync of the copy throws; a copyFileSync throws     *)
(* after `done` files; an unlinkSync or the rmdirSync of a              *)
(* deleteDirectory throws after `done` files; the renameSync,           *)
(* unlinkSync or copyFileSync of an archive throws.                     *)
MaxFiles == Len(PackageFiles(toolDir))

Fault(at, done) == [at |-> at, done |-> done]

NoFault == Fault("none", 0)

Faults ==
    { Fault(at, 0) : at \in {"none", "rename", "mkdir", "vsix"} }
    \cup { Fault("copy", k) : k \in 0..(MaxFiles - 1) }
    \cup { Fault("delete", k) : k \in 0..MaxFiles }

(* The files of a plugin directory that are there, as readdirSync lists them. *)
Present(dirName, inside) == SelectSeq(PackageFiles(dirName), LAMBDA f : f \in inside)

FirstFiles(dirName, inside, k) ==
    { Present(dirName, inside)[i] : i \in 1..k }

(* The fault can happen while the directory `name` of `source` is moved *)
(* to `destination`.                                                    *)
CanHappen(fault, source, name, destination) ==
    LET n == Len(Present(name, source[name]))
    IN CASE fault.at = "mkdir" -> ~Has(destination, name)
         [] fault.at = "copy" -> fault.done < n
         [] fault.at = "delete" -> fault.done <= n
         [] OTHER -> TRUE

(* A moveDirectory that copies and leaves the source. *)
moveDirectoryCopyOnly(source, name, destination, fault) ==
    [thrown |-> FALSE, source |-> source,
     destination |-> Put(destination, name, source[name])]

(* moveDirectory(source/name, destination/name): renameSync, which   *)
(* fails where the destination is a directory that is not empty; in  *)
(* its catch copyDirectory, which adds to what the destination has,  *)
(* and deleteDirectory.                                               *)
moveDirectory(source, name, destination, fault) ==
    LET inside  == source[name]
        there   == IF Has(destination, name) THEN destination[name] ELSE {}
        renamed == fault.at \in {"none", "vsix"} /\ there = {}
        copied  == IF fault.at = "copy" THEN FirstFiles(name, inside, fault.done) ELSE inside
        deleted == IF fault.at = "delete" THEN FirstFiles(name, inside, fault.done) ELSE inside
    IN IF renamed
       THEN [thrown |-> FALSE, source |-> Drop(source, {name}),
             destination |-> Put(destination, name, inside)]
       ELSE IF fault.at = "mkdir"
       THEN [thrown |-> TRUE, source |-> source, destination |-> destination]
       ELSE IF fault.at = "copy"
       THEN [thrown |-> TRUE, source |-> source,
             destination |-> Put(destination, name, there \cup copied)]
       ELSE IF fault.at = "delete"
       THEN [thrown |-> TRUE, source |-> Put(source, name, inside \ deleted),
             destination |-> Put(destination, name, there \cup inside)]
       ELSE [thrown |-> FALSE, source |-> Drop(source, {name}),
             destination |-> Put(destination, name, there \cup inside)]

(* deleteDirectory(dir/name): nothing where it is not there. *)
deleteDirectory(dir, name, fault) ==
    IF ~Has(dir, name) THEN [thrown |-> FALSE, dir |-> dir]
    ELSE IF fault.at = "delete" /\ fault.done <= Len(Present(name, dir[name]))
    THEN [thrown |-> TRUE,
          dir |-> Put(dir, name, dir[name] \ FirstFiles(name, dir[name], fault.done))]
    ELSE [thrown |-> FALSE, dir |-> Drop(dir, {name})]

(* The calls.  An operation is one step up to its await of              *)
(* getExtensionById, the scan is a step, and what follows the await up  *)
(* to the next await that lets another call in is a step.  `among` is   *)
(* the set of the calls that were under way when the call was made or   *)
(* were made while it was under way; failed and log are results.failed  *)
(* and what executeJsonBasedUninstall has gone through.                 *)
Ops == 1..NumOps

Outcome(success, message) == [success |-> success, message |-> message]

NoOutcome == Outcome(FALSE, "")

IdleOp ==
    [op |-> "none", id |-> "", pc |-> "idle", extension |-> null, result |-> NoOutcome,
     among |-> {}, failed |-> {}, log |-> << >>]

ExtensionIds == { selfId, "vendor.tool", "monstermaker.extension-manager" }

UnderWay(q) == ops[q].pc \notin {"idle", "done"}

isSelfNever(extensionId) == FALSE

(* extensionId === this.selfId *)
isSelf(extensionId) == extensionId = selfId

(* The start of an operation: the answer at once for the manager's own *)
(* id, the call of getExtensionById for another.                       *)
Begin(p, op, extensionId, message) ==
    [q \in Ops |->
        IF q # p
        THEN [ops[q] EXCEPT !.among = IF UnderWay(q) /\ ~isSelf(extensionId)
                                      THEN @ \cup {p} ELSE @ \ {p}]
        ELSE IF isSelf(extensionId)
        THEN [IdleOp EXCEPT !.op = op, !.id = extensionId, !.pc = "done",
                            !.result = Outcome(FALSE, message)]
        ELSE [IdleOp EXCEPT !.op = op, !.id = extensionId, !.pc = "scanning",
                            !.among = { r \in Ops \ {p} : UnderWay(r) }]]

CallEnableExtension(p, extensionId) ==
    /\ ops[p].pc = "idle"
    /\ ops' = Begin(p, "enable", extensionId, "error.cannotEnableSelf")
    /\ UNCHANGED <<now, files, dirs, calls, lastIndex, tested, units, installed, parked, upgraded>>

CallDisableExtension(p, extensionId) ==
    /\ ops[p].pc = "idle"
    /\ ops' = Begin(p, "disable", extensionId, "error.cannotDisableSelf")
    /\ UNCHANGED <<now, files, dirs, calls, lastIndex, tested, units, installed, parked, upgraded>>

CallUninstallExtension(p, extensionId) ==
    /\ ops[p].pc = "idle"
    /\ ops' = Begin(p, "uninstall", extensionId, "error.cannotUninstallSelf")
    /\ UNCHANGED <<now, files, dirs, calls, lastIndex, tested, units, installed, parked, upgraded>>

(* await this.scanner.getExtensionById(extensionId) *)
ExtensionScanned(p) ==
    /\ ops[p].pc = "scanning"
    /\ ops' = [ops EXCEPT ![p].pc = "found",
                          ![p].extension = getExtensionById(ops[p].id)]
    /\ UNCHANGED <<now, files, dirs, calls, lastIndex, tested, units, installed, parked, upgraded>>

Settle(p, success, message) ==
    ops' = [ops EXCEPT ![p].pc = "done", ![p].result = Outcome(success, message)]


(* What there is of the plugin directory d and of its archive. *)
Entries(d) ==
    << IF Has(deployedDir, d) THEN << deployedDir[d] >> ELSE << >>,
       IF Has(disabledDir, d) THEN << disabledDir[d] >> ELSE << >>,
       Has(extensionsDir, VsixFileName(d)), Has(disabledDir, VsixFileName(d)) >>

EntriesAfter(d) ==
    << IF Has(deployedDir', d) THEN << deployedDir'[d] >> ELSE << >>,
       IF Has(disabledDir', d) THEN << disabledDir'[d] >> ELSE << >>,
       Has(extensionsDir', VsixFileName(d)), Has(disabledDir', VsixFileName(d)) >>

NotParked == [held |-> FALSE, clean |-> FALSE, inside |-> {}, vsix |-> FALSE]

(* parked: of every plugin directory, what the disableExtension that   *)
(* moved it away found deployed, for as long as nothing else has       *)
(* touched the directory and its archive since; clean, where the       *)
(* disabled directory had nothing of it before.  `name` is the         *)
(* directory a step has disabled, NoPath in any other step.            *)
Park(name) ==
    parked' = [d \in PluginDirs |->
                 IF d = name
                 THEN [held |-> TRUE, inside |-> deployedDir[d],
                       clean |-> ~Has(disabledDir, d) /\ ~Has(disabledDir, VsixFileName(d)),
                       vsix |-> Has(extensionsDir, VsixFileName(d))]
                 ELSE IF EntriesAfter(d) # Entries(d) THEN NotParked
                 ELSE parked[d]]

(* enableExtension from its await on. *)
EnableFinish(p, fault) ==
    LET extension == ops[p].extension
        disabledPath == extension.disabledPath
        vsixFileName == VsixFileName(disabledPath)
        moved == moveDirectory(disabledDir, disabledPath, deployedDir, fault)
    IN
    /\ ops[p].pc = "found" /\ ops[p].op = "enable"
    /\ UNCHANGED <<now, files, dirs, calls, lastIndex, tested, units, configDirs, upgraded>>
    /\ IF extension = null
       THEN Settle(p, FALSE, "error.notFound")
            /\ fault = NoFault
            /\ UNCHANGED <<extensionsDir, deployedDir, disabledDir>>
       ELSE IF extension.status = "enabled"
       THEN Settle(p, FALSE, "error.alreadyEnabled")
            /\ fault = NoFault
            /\ UNCHANGED <<extensionsDir, deployedDir, disabledDir>>
       ELSE IF disabledPath = NoPath \/ ~Has(disabledDir, disabledPath)
       THEN Settle(p, FALSE, "error.notFound")
            /\ fault = NoFault
            /\ UNCHANGED <<extensionsDir, deployedDir, disabledDir>>
       ELSE /\ CanHappen(fault, disabledDir, disabledPath, deployedDir)
            /\ deployedDir' = moved.destination
            /\ IF moved.thrown
               THEN /\ Settle(p, FALSE, "error.moveFailed")
                    /\ disabledDir' = moved.source
                    /\ UNCHANGED extensionsDir
               ELSE IF ~Has(moved.source, vsixFileName)
               THEN /\ Settle(p, TRUE, "status.enabled")
                    /\ disabledDir' = moved.source
                    /\ UNCHANGED extensionsDir
               ELSE IF fault.at = "vsix"
               THEN /\ Settle(p, FALSE, "error.moveFailed")
                    /\ disabledDir' = moved.source
                    /\ UNCHANGED extensionsDir
               ELSE /\ Settle(p, TRUE, "status.enabled")
                    /\ disabledDir' = Drop(moved.source, {vsixFileName})
                    /\ extensionsDir' = Put(extensionsDir, vsixFileName, File)
    /\ Park(NoPath)

(* disableExtension from its await on. *)
DisableFinish(p, fault) ==
    LET extension == ops[p].extension
        deployedPath == extension.deployedPath
        vsixFileName == VsixFileName(deployedPath)
        moved == moveDirectory(deployedDir, deployedPath, disabledDir, fault)
    IN
    /\ ops[p].pc = "found" /\ ops[p].op = "disable"
    /\ UNCHANGED <<now, files, dirs, calls, lastIndex, tested, units, configDirs, upgraded>>
    /\ IF extension = null
       THEN Settle(p, FALSE, "error.notFound")
            /\ fault = NoFault
            /\ UNCHANGED <<extensionsDir, deployedDir, disabledDir>>
            /\ Park(NoPath)
       ELSE IF extension.status = "disabled"
       THEN Settle(p, FALSE, "error.alreadyDisabled")
            /\ fault = NoFault
            /\ UNCHANGED <<extensionsDir, deployedDir, disabledDir>>
            /\ Park(NoPath)
       ELSE IF deployedPath = NoPath \/ ~Has(deployedDir, deployedPath)
       THEN Settle(p, FALSE, "error.notFound")
            /\ fault = NoFault
            /\ UNCHANGED <<extensionsDir, deployedDir, disabledDir>>
            /\ Park(NoPath)
       ELSE /\ CanHappen(fault, deployedDir, deployedPath, disabledDir)
            /\ deployedDir' = moved.source
            /\ IF moved.thrown
               THEN /\ Settle(p, FALSE, "error.moveFailed")
                    /\ disabledDir' = moved.destination
                    /\ UNCHANGED extensionsDir
                    /\ Park(NoPath)
               ELSE IF ~Has(extensionsDir, vsixFileName)
               THEN /\ Settle(p, TRUE, "status.disabled")
                    /\ disabledDir' = moved.destination
                    /\ UNCHANGED extensionsDir
                    /\ Park(deployedPath)
               ELSE IF fault.at = "vsix"
               THEN /\ Settle(p, FALSE, "error.moveFailed")
                    /\ disabledDir' = moved.destination
                    /\ UNCHANGED extensionsDir
                    /\ Park(NoPath)
               ELSE /\ Settle(p, TRUE, "status.disabled")
                    /\ disabledDir' = Put(moved.destination, vsixFileName, File)
                    /\ extensionsDir' = Drop(extensionsDir, {vsixFileName})
                    /\ Park(deployedPath)

(* loadUninstallConfig(deployedPath): null where there is no uninstall.json. *)
loadUninstallConfig(deployedPath) ==
    Has(deployedDir, deployedPath) /\ "uninstall.json" \in deployedDir[deployedPath]

(* What executeStandardUninstall does to the three directories: the      *)
(* deployed directory, the disabled directory, and the archive named     *)
(* after the one or the other in both places.                            *)
executeStandardUninstall(extension, fault) ==
    LET dirName == IF extension.deployedPath # NoPath THEN extension.deployedPath
                   ELSE extension.disabledPath
        vsixFileName == VsixFileName(dirName)
        first  == IF extension.deployedPath # NoPath
                  THEN deleteDirectory(deployedDir, extension.deployedPath, fault)
                  ELSE [thrown |-> FALSE, dir |-> deployedDir]
        second == IF extension.disabledPath # NoPath /\ ~first.thrown
                  THEN deleteDirectory(disabledDir, extension.disabledPath,
                                       IF Has(deployedDir, extension.deployedPath)
                                       THEN NoFault ELSE fault)
                  ELSE [thrown |-> FALSE, dir |-> disabledDir]
        reached == ~first.thrown /\ ~second.thrown /\ dirName # NoPath
        unlinkThrows == /\ reached /\ fault.at = "vsix"
                        /\ (Has(extensionsDir, vsixFileName) \/ Has(second.dir, vsixFileName))
    IN [thrown |-> first.thrown \/ second.thrown \/ unlinkThrows,
        deployedDir |-> first.dir,
        disabledDir |-> IF reached /\ ~unlinkThrows
                        THEN Drop(second.dir, {vsixFileName}) ELSE second.dir,
        extensionsDir |-> IF reached /\ ~unlinkThrows
                          THEN Drop(extensionsDir, {vsixFileName}) ELSE extensionsDir]

(* The faults of an executeStandardUninstall. *)
CanFail(fault) == fault.at \in {"none", "delete", "vsix"}

StandardUninstall(p, fault, message) ==
    LET cleaned == executeStandardUninstall(ops[p].extension, fault)
    IN /\ CanFail(fault)
       /\ deployedDir' = cleaned.deployedDir
       /\ disabledDir' = cleaned.disabledDir
       /\ extensionsDir' = cleaned.extensionsDir
       /\ ops' = [ops EXCEPT
                    ![p].pc = "done",
                    ![p].log = Append(@, "standard"),
                    ![p].result = IF cleaned.thrown THEN Outcome(FALSE, "error.deleteFailed")
                                  ELSE message]

(* Every listed path is taken for one that exists. *)
ExistsAll(listed) == listed

(* The listed paths for which fs.existsSync(resolved) holds. *)
Exists(listed) == SelectSeq(listed, LAMBDA path : path \in configDirs)

(* uninstallExtension from its await on.  Without uninstall.json the      *)
(* standard uninstall.  With it executeJsonBasedUninstall up to the await *)
(* that follows clearGlobalState: the directories and the files listed,   *)
(* of which those in `failing` cannot be deleted, and the global state.   *)
UninstallFinish(p, fault, failing) ==
    LET extension == ops[p].extension
        config == Packages[extension.deployedPath]
        listed == Exists(config.directories) \o Exists(config.files)
        items  == { listed[i] : i \in 1..Len(listed) }
    IN
    /\ ops[p].pc = "found" /\ ops[p].op = "uninstall"
    /\ UNCHANGED <<now, files, dirs, calls, lastIndex, tested, units, upgraded>>
    /\ IF extension = null
       THEN /\ Settle(p, FALSE, "error.notFound")
            /\ fault = NoFault /\ failing = {}
            /\ UNCHANGED installed
       ELSE IF extension.deployedPath = NoPath \/ ~loadUninstallConfig(extension.deployedPath)
       THEN /\ StandardUninstall(p, fault, Outcome(TRUE, "status.uninstalled"))
            /\ failing = {}
            /\ UNCHANGED configDirs
       ELSE /\ fault = NoFault
            /\ failing \subseteq items
            /\ configDirs' = (configDirs \ (items \ failing)) \ {"globalState"}
            /\ ops' = [ops EXCEPT ![p].pc = "clearing", ![p].failed = failing,
                                  ![p].log = listed \o << "globalState" >>]
            /\ UNCHANGED <<extensionsDir, deployedDir, disabledDir>>
    /\ Park(NoPath)

(* The rest of executeJsonBasedUninstall: clearVSCodeSettings, the *)
(* standard uninstall, the result.                                 *)
UninstallCleanup(p, fault) ==
    /\ ops[p].pc = "clearing"
    /\ configDirs' = configDirs \ {"settings"}
    /\ LET start == [ops EXCEPT ![p].log = Append(@, "settings")]
           cleaned == executeStandardUninstall(ops[p].extension, fault)
       IN /\ CanFail(fault)
          /\ deployedDir' = cleaned.deployedDir
          /\ disabledDir' = cleaned.disabledDir
          /\ extensionsDir' = cleaned.extensionsDir
          /\ ops' = [start EXCEPT
                       ![p].pc = "done",
                       ![p].log = Append(@, "standard"),
                       ![p].result =
                          IF cleaned.thrown \/ ops[p].failed # {}
                          THEN Outcome(FALSE, "error.deleteFailed")
                          ELSE Outcome(TRUE, "status.uninstalled")]
    /\ Park(NoPath)
    /\ UNCHANGED <<now, files, dirs, calls, lastIndex, tested, units, upgraded>>


---------------------------------------------------------------------------
(* Versions and the names of archives: controller.js *)

(* A version is the sequence of what stands between its dots.  Number *)
(* of a part: a number for these, NaN for any other.                   *)
Numbers ==
    [part \in {"", "0", "1", "01", "2", "9", "10"} |->
        CASE part = "" -> 0
          [] part = "0" -> 0
          [] part = "1" -> 1
          [] part = "01" -> 1
          [] part = "2" -> 2
          [] part = "9" -> 9
          [] part = "10" -> 10]

(* parts[i] || 0, i counted from 1: 0 for a part that is not there and *)
(* for NaN.                                                            *)
PartOr0(parts, i) ==
    IF i > Len(parts) THEN 0
    ELSE IF parts[i] \notin DOMAIN Numbers THEN 0
    ELSE Numbers[parts[i]]

RECURSIVE CompareFrom(_, _, _)
CompareFrom(parts1, parts2, i) ==
    IF i > 3 THEN 0
    ELSE IF PartOr0(parts1, i) > PartOr0(parts2, i) THEN 1
    ELSE IF PartOr0(parts1, i) < PartOr0(parts2, i) THEN -1
    ELSE CompareFrom(parts1, parts2, i + 1)

compareVersionsLastPart(v1, v2) == CompareFrom(v1, v2, 3)

compareVersions(v1, v2) == CompareFrom(v1, v2, 1)

NoVersion == << >>

Parsed(name, version) == [name |-> name, version |-> version]

(* What /^(.+?)-(\d+\.\d+\.\d+)\.vsix$/, and after it /^(.+?)\.vsix$/, *)
(* find in the name of an archive.                                     *)
parseVsixFilename(fileName) ==
    CASE fileName = "extension-manager.vsix" -> Parsed("extension-manager", NoVersion)
      [] fileName = "vendor.tool-1.0.0.vsix" -> Parsed("vendor.tool", << "1", "0", "0" >>)
      [] fileName = "vendor.tool-1.1.0.vsix" -> Parsed("vendor.tool", << "1", "1", "0" >>)
      [] fileName = "vendor.tool-1.10.0.vsix" -> Parsed("vendor.tool", << "1", "10", "0" >>)
      [] fileName = "vendor.tool-01.1.0.vsix" -> Parsed("vendor.tool", << "01", "1", "0" >>)
      [] fileName = "vendor.tool.vsix" -> Parsed("vendor.tool", NoVersion)
      [] fileName = "a.vsix" -> Parsed("a", NoVersion)
      [] fileName = "c.vsix" -> Parsed("c", NoVersion)
      [] fileName = "e.vsix" -> Parsed("e", NoVersion)
      [] fileName = "missing.vsix" -> Parsed("missing", NoVersion)

NotInstalled == [fileName |-> NoPath, version |-> NoVersion]

(* findInstalledVersion: the first archive of the name that has a     *)
(* version; without one, the last archive of the name.                *)
findInstalledVersion(extensionName, extDir) ==
    LET named == SelectSeq(readdirSync(extDir),
                    LAMBDA f : endsWithVsix(f) /\ parseVsixFilename(f).name = extensionName)
        versioned == SelectSeq(named, LAMBDA f : parseVsixFilename(f).version # NoVersion)
    IN IF versioned # << >>
       THEN [fileName |-> Head(versioned), version |-> parseVsixFilename(Head(versioned)).version]
       ELSE IF named # << >>
       THEN [fileName |-> named[Len(named)], version |-> NoVersion]
       ELSE NotInstalled

(* The action installExtension finds for an archive of this name. *)
ActionFor(fileName, extDir) ==
    LET parsed == parseVsixFilename(fileName)
        current == findInstalledVersion(parsed.name, extDir)
        comparison == compareVersions(parsed.version, current.version)
    IN IF Has(extDir, fileName) THEN "reinstall"
       ELSE IF current = NotInstalled THEN "install"
       ELSE IF parsed.version # NoVersion /\ current.version # NoVersion
       THEN IF comparison < 0 THEN "downgrade"
            ELSE IF comparison = 0 THEN "reinstall"
            ELSE "upgrade"
       ELSE "upgrade"

NotUpgraded == [fileName |-> NoPath, fault |-> NoFault, result |-> NoOutcome]

(* upgradeExtension(oldFileName, vsixPath), which has no await: the other *)
(* archives of the name, the deployed directory of the name, the copy.    *)
UpgradeExtension(newFileName, fault) ==
    LET parsed == parseVsixFilename(newFileName)
        old == { f \in DOMAIN extensionsDir :
                   parseVsixFilename(f).name = parsed.name /\ f # newFileName }
        unlinkThrows == fault.at = "vsix" /\ old # {}
        deleted == deleteDirectory(deployedDir, parsed.name, fault)
        thrown == unlinkThrows \/ deleted.thrown \/ fault.at = "copy"
    IN /\ upgraded = NotUpgraded
       /\ fault.at \in {"none", "vsix", "delete", "copy"}
       /\ fault.done = 0 \/ fault.at = "delete"
       /\ extensionsDir' = IF unlinkThrows THEN extensionsDir
                           ELSE IF thrown THEN Drop(extensionsDir, old)
                           ELSE Put(Drop(extensionsDir, old), newFileName, File)
       /\ deployedDir' = IF unlinkThrows THEN deployedDir ELSE deleted.dir
       /\ upgraded' = [fileName |-> newFileName, fault |-> fault,
                       result |-> IF thrown THEN Outcome(FALSE, "error.installFailed")
                                  ELSE Outcome(TRUE, "status.upgraded")]
       /\ UNCHANGED <<now, files, dirs, calls, lastIndex, tested, units>>
       /\ UNCHANGED <<disabledDir, configDirs, ops>>
       /\ Park(NoPath)


---------------------------------------------------------------------------
(* scanExtensions on three directories *)

NotListed == [done |-> FALSE, extensions |-> << >>]

ScanDirectories ==
    /\ ~listing.done
    /\ listing' = [done |-> TRUE, extensions |-> scanExtensions]
    /\ UNCHANGED <<now, files, dirs, calls, lastIndex, content, scanOut, pkg, depOut>>
    /\ UNCHANGED <<statSize, sizeOut, scanned, report, lifecycle, archive, versions, classified>>

---------------------------------------------------------------------------
(* compareVersions on two versions, and the action for one archive *)

(* The archives of the directories scanExtensions is tried on. *)
ListedArchives == { VsixFileName(toolDir), VsixFileName(newToolDir), "vendor.tool.vsix" }

NotClassified == [done |-> FALSE, action |-> "", forward |-> 0, backward |-> 0]

VersionParts == { "1", "10", "x" }

Versions == UNION { [1..n -> VersionParts] : n \in 0..MaxParts }

RECURSIVE Listings(_)
Listings(n) ==
    IF n = 0 THEN { EmptyDir }
    ELSE LET smaller == Listings(n - 1)
         IN smaller \cup { Put(dir, f, File) : dir \in smaller, f \in ArchiveNames }

Classify ==
    /\ ~classified.done
    /\ classified' = [done |-> TRUE, action |-> ActionFor(archive, extensionsDir),
                      forward |-> compareVersions(versions[1], versions[2]),
                      backward |-> compareVersions(versions[2], versions[1])]
    /\ UNCHANGED <<archive, versions>>
    /\ UNCHANGED <<now, files, dirs, calls, lastIndex, content, scanOut, pkg, depOut>>
    /\ UNCHANGED <<statSize, sizeOut, scanned, report, lifecycle, listing>>

---------------------------------------------------------------------------
(* The calls *)

Calls == 1..NumCalls

NoDirName == << "none", 0 >>

NoEnv == [unzip |-> TRUE, tar |-> TRUE]

(* kind: which entry point was called.  pc: where the call is suspended.   *)
(* existed, among, copies, tools, env, extracted, thrownBy and cleaned    *)
(* record what the call has done so far; among is the set of the calls    *)
(* that were under way when this one was made.                             *)
IdleCall ==
    [kind |-> "none", path |-> Path("dl", "a", ".vsix"), pc |-> "idle",
     existed |-> FALSE, among |-> {}, tempDir |-> NoDirName, infoDir |-> NoDirName,
     copies |-> 0, tools |-> << >>, env |-> NoEnv,
     extracted |-> FALSE, issues |-> << >>, packageIssues |-> << >>,
     thrownBy |-> "", cleaned |-> FALSE, result |-> << >>, ret |-> << >>]

ScanPcs == {"s_extracted", "s_throwing", "s_scanned", "s_checked"}

(* The scan of call p has started and has not settled. *)
ScanInFlight(p) == calls[p].pc \in ScanPcs

(* Call p is inside scanVsix or extractExtensionInfo. *)
InFlight(p) == calls[p].pc \in ScanPcs \cup {"e_extracted", "e_throwing"}

(* Call q has been made and its promise is not settled. *)
Running(q) ==
    /\ calls[q].pc \notin {"idle", "done"}
    /\ ~(calls[q].kind = "scan" /\ calls[q].pc \in {"s_resolved", "s_rejected"})

(* What tar would answer matters only once unzip has failed. *)
TarChoices(unzipOk) == IF unzipOk THEN {TRUE} ELSE BOOLEAN

(* Whether a second extraction into a directory replaces the manifest the *)
(* first one left there is up to the tool.                                *)
OverwriteChoices(fsys, d) ==
    IF fsys.dirs[d].manifestOf = NoContent THEN {TRUE} ELSE BOOLEAN

(* scanVsix, catch and finally: cleanup, then the promise is rejected. *)
ScanReject(p, rec, fsys, why) ==
    LET fs2 == cleanup(fsys, rec.tempDir)
    IN /\ files' = fs2.files
       /\ dirs' = fs2.dirs
       /\ calls' = [calls EXCEPT ![p] =
                       [rec EXCEPT !.pc = "s_rejected", !.thrownBy = why, !.cleaned = TRUE]]

(* scanVsix up to its first await: the name of the scratch directory, the *)
(* staged copy, extractVsix.                                              *)
ScanVsixBegin(p, rec) ==
    LET tempDir   == << "temp-", now >>
        checkVsix == StagedPath(rec.path)
        r0        == [rec EXCEPT !.tempDir = tempDir]
    IN \E cp \in copyFileSync(FS, rec.path, checkVsix, p) :
         IF ~cp.ok
         THEN ScanReject(p, r0, cp.fs, "copy")
         ELSE \E unzipOk \in BOOLEAN : \E tarOk \in TarChoices(unzipOk),
                 overwrite \in OverwriteChoices(cp.fs, tempDir) :
                LET ex == extractVsix(cp.fs, checkVsix, tempDir, unzipOk, tarOk, overwrite)
                IN /\ files' = ex.fs.files
                   /\ dirs' = ex.fs.dirs
                   /\ calls' = [calls EXCEPT ![p] =
                         [r0 EXCEPT !.copies = @ + 1,
                                    !.tools = ex.tools,
                                    !.env = [unzip |-> unzipOk, tar |-> tarOk],
                                    !.extracted = ex.ok,
                                    !.thrownBy = IF ex.ok THEN "" ELSE "extract",
                                    !.pc = IF ex.ok THEN "s_extracted" ELSE "s_throwing"]]

(* A direct call of scanVsix(vsixPath). *)
CallScanVsix(p, vsixPath) ==
    /\ calls[p].pc = "idle"
    /\ ScanVsixBegin(p, [calls[p] EXCEPT !.kind = "scan", !.path = vsixPath,
                                         !.existed = existsSync(FS, vsixPath),
                                         !.among = { q \in Calls : Running(q) }])
    /\ UNCHANGED <<now, lastIndex, tested, lifecycle, units>>

(* The rejection of extractVsix or scanExtractedCode reaches the catch. *)
ScanCatch(p) ==
    /\ calls[p].pc = "s_throwing"
    /\ ScanReject(p, calls[p], FS, calls[p].thrownBy)
    /\ UNCHANGED <<now, lastIndex, tested, lifecycle, units>>

ScanCode(p) ==
    /\ calls[p].pc = "s_extracted"
    /\ LET r == scanExtractedCode(FS, calls[p].tempDir, lastIndex)
       IN /\ calls' = [calls EXCEPT ![p] =
                          IF r.ok
                          THEN [@ EXCEPT !.pc = "s_scanned", !.issues = r.issues]
                          ELSE [@ EXCEPT !.pc = "s_throwing", !.thrownBy = "scan"]]
          /\ lastIndex' = r.objects
    /\ UNCHANGED <<now, files, dirs, tested, lifecycle, units>>

ScanPackage(p) ==
    /\ calls[p].pc = "s_scanned"
    /\ calls' = [calls EXCEPT ![p] =
                    [@ EXCEPT !.pc = "s_checked",
                              !.packageIssues = checkPackageJson(FS, calls[p].tempDir)]]
    /\ UNCHANGED <<now, files, dirs, lastIndex, tested, lifecycle, units>>

AllIssuesSizeFirst(issues, packageIssues, sizeIssue) ==
    sizeIssue \o issues \o packageIssues

(* issues.push(...packageIssues), issues.push(sizeIssue) *)
AllIssues(issues, packageIssues, sizeIssue) ==
    issues \o packageIssues \o sizeIssue

(* The rest of scanVsix: the name, the size check, the result, cleanup. *)
ScanFinish(p) ==
    /\ calls[p].pc = "s_checked"
    /\ LET rec    == calls[p]
           name   == ExtensionNameIn(FS, rec.tempDir)
           sz     == checkFileSize(FS, rec.path)
           issues == AllIssues(rec.issues, rec.packageIssues, sz.issues)
           fs2    == cleanup(FS, rec.tempDir)
       IN IF ~sz.ok
          THEN ScanReject(p, rec, FS, "stat")
          ELSE /\ files' = fs2.files
               /\ dirs' = fs2.dirs
               /\ calls' = [calls EXCEPT ![p] =
                     [rec EXCEPT !.pc = "s_resolved", !.cleaned = TRUE,
                                 !.issues = issues,
                                 !.result = << ScanResult(issues, name) >>]]
    /\ UNCHANGED <<now, lastIndex, tested, lifecycle, units>>

---------------------------------------------------------------------------
(* Controller.installExtension and SecurityCheck.extractExtensionInfo *)

ValidVsixPathExistsOnly(fsys, vsixPath) == existsSync(fsys, vsixPath)

(* !(!fs.existsSync(vsixPath) || !vsixPath.endsWith('.vsix')) *)
ValidVsixPath(fsys, vsixPath) ==
    existsSync(fsys, vsixPath) /\ endsWith(vsixPath, ".vsix")

(* A result that says success whatever it is given. *)
ReturnSuccess(success, message, scanResult) ==
    [success |-> TRUE, message |-> message, scanResult |-> scanResult, action |-> ""]

(* What installExtension returns; action is set where it has got that far. *)
Return(success, message, scanResult) ==
    [success |-> success, message |-> message, scanResult |-> scanResult, action |-> ""]

(* path.basename(vsixPath) *)
basename(vsixPath) == vsixPath.stem \o vsixPath.ext

(* What installExtension puts in place of the result of a scan that threw. *)
SkippedScan ==
    [safe |-> TRUE, issues |-> << >>, details |-> << "Scan skipped due to error" >>,
     extensionName |-> ""]

(* extractExtensionInfo, catch: cleanup(checkDir), then the error is thrown on. *)
InfoReject(p, rec, fsys) ==
    LET fs2 == cleanup(fsys, rec.infoDir)
    IN /\ files' = fs2.files
       /\ dirs' = fs2.dirs
       /\ calls' = [calls EXCEPT ![p] = [rec EXCEPT !.pc = "e_rejected"]]

(* extractExtensionInfo up to its await: the directory, the staged copy, *)
(* extractVsix.                                                          *)
InfoBegin(p, rec) ==
    LET infoDir     == << "info-extract-", now >>
        tempVsix    == StagedPath(rec.path)
        r0          == [rec EXCEPT !.infoDir = infoDir]
        made        == [FS EXCEPT !.dirs[infoDir].exists = TRUE]
    IN \E cp \in copyFileSync(made, rec.path, tempVsix, p) :
         IF ~cp.ok
         THEN InfoReject(p, r0, cp.fs)
         ELSE \E unzipOk \in BOOLEAN : \E tarOk \in TarChoices(unzipOk),
                 overwrite \in OverwriteChoices(cp.fs, infoDir) :
                LET ex == extractVsix(cp.fs, tempVsix, infoDir, unzipOk, tarOk, overwrite)
                IN /\ files' = ex.fs.files
                   /\ dirs' = ex.fs.dirs
                   /\ calls' = [calls EXCEPT ![p] =
                         [r0 EXCEPT !.copies = @ + 1,
                                    !.pc = IF ex.ok THEN "e_extracted" ELSE "e_throwing"]]

(* installExtension(vsixPath) up to its first await. *)
CallInstallExtension(p, vsixPath) ==
    /\ calls[p].pc = "idle"
    /\ LET rec == [calls[p] EXCEPT !.kind = "install", !.path = vsixPath,
                                   !.existed = existsSync(FS, vsixPath),
                                   !.among = { q \in Calls : Running(q) }]
       IN IF ~ValidVsixPath(FS, vsixPath)
          THEN /\ calls' = [calls EXCEPT ![p] =
                     [rec EXCEPT !.pc = "done",
                                 !.ret = << Return(FALSE, "error.invalidVsix", << >>) >>]]
               /\ UNCHANGED <<files, dirs>>
          ELSE InfoBegin(p, rec)
    /\ UNCHANGED <<now, lastIndex, tested, lifecycle, units>>

InfoCatch(p) ==
    /\ calls[p].pc = "e_throwing"
    /\ InfoReject(p, calls[p], FS)
    /\ UNCHANGED <<now, lastIndex, tested, lifecycle, units>>

(* The rest of extractExtensionInfo: package.json, the size, the cleanup. *)
InfoFinish(p) ==
    /\ calls[p].pc = "e_extracted"
    /\ LET rec      == calls[p]
           tempVsix == StagedPath(rec.path)
           m        == ManifestIn(FS, rec.infoDir)
           fs2      == cleanup(FS, rec.infoDir)
           fs3      == IF existsSync(fs2, tempVsix) THEN unlinkSync(fs2, tempVsix) ELSE fs2
       IN IF m.state # "valid" \/ ~existsSync(FS, rec.path)
          THEN InfoReject(p, rec, FS)
          ELSE /\ files' = fs3.files
               /\ dirs' = fs3.dirs
               /\ calls' = [calls EXCEPT ![p] = [rec EXCEPT !.pc = "e_resolved"]]
    /\ UNCHANGED <<now, lastIndex, tested, lifecycle, units>>

(* installExtension: extractExtensionInfo threw. *)
InstallInfoFailed(p) ==
    /\ calls[p].pc = "e_rejected"
    /\ calls' = [calls EXCEPT ![p] =
                    [@ EXCEPT !.pc = "done",
                              !.ret = << Return(FALSE, "error.invalidVsix", << >>) >>]]
    /\ UNCHANGED <<now, files, dirs, lastIndex, tested, lifecycle, units>>

(* installExtension: extractExtensionInfo returned, scanVsix is called. *)
InstallScan(p) ==
    /\ calls[p].pc = "e_resolved"
    /\ ScanVsixBegin(p, calls[p])
    /\ UNCHANGED <<now, lastIndex, tested, lifecycle, units>>

(* installExtension: scanVsix has settled; the action, and the answer to *)
(* the caller.  The mkdirSync of an extensions directory that is not    *)
(* there adds no entry to it.                                           *)
InstallFinish(p) ==
    /\ calls[p].kind = "install"
    /\ calls[p].pc \in {"s_resolved", "s_rejected"}
    /\ LET scanResult == IF calls[p].pc = "s_resolved" THEN calls[p].result[1]
                         ELSE SkippedScan
           action == ActionFor(basename(calls[p].path), extensionsDir)
       IN calls' = [calls EXCEPT ![p] =
                       [@ EXCEPT !.pc = "done",
                                 !.ret = << [Return(FALSE, "needsConfirmation",
                                                    << scanResult >>)
                                               EXCEPT !.action = action] >>]]
    /\ UNCHANGED <<now, files, dirs, lastIndex, tested, lifecycle, units>>

(* A millisecond passes. *)
Tick ==
    /\ now < MaxClock
    /\ now' = now + 1
    /\ UNCHANGED <<files, dirs, calls, lastIndex, tested, lifecycle, units>>

---------------------------------------------------------------------------
(* The scanner on one source file *)

NotScanned == [done |-> FALSE, issues |-> << >>]

RECURSIVE Texts(_)
Texts(n) ==
    IF n = 0 THEN { << >> }
    ELSE LET shorter == Texts(n - 1)
         IN shorter \cup { Append(c, t) : c \in { x \in shorter : Len(x) = n - 1 },
                                          t \in Tokens }

TestFile(c) == SourceFile(<< "extension" >>, "main", ".js", TRUE, c)

(* scanExtractedCode on a tree that holds the one file. *)
ScanContent ==
    /\ ~scanOut.done
    /\ LET r == ScanFiles(findJsFiles(<< TestFile(content) >>), lastIndex)
       IN /\ scanOut' = [done |-> TRUE, issues |-> r.issues]
          /\ lastIndex' = r.objects
    /\ UNCHANGED <<now, files, dirs, calls, content>>
    /\ UNCHANGED <<pkg, depOut, statSize, sizeOut, scanned, report, lifecycle, units>>

---------------------------------------------------------------------------
(* The manifest check on one package.json *)

DepNames == { "keytar", "ssh-exec", "lodash" }

DepVersions == { "^1.0.0", "" }

(* The lists of at most n declared dependencies. *)
RECURSIVE DepLists(_)
DepLists(n) ==
    IF n = 0 THEN { << >> }
    ELSE LET shorter == DepLists(n - 1)
         IN shorter \cup { Append(l, Dep(name, v)) :
                              l \in { x \in shorter : Len(x) = n - 1 },
                              name \in DepNames, v \in DepVersions }

Manifests ==
    { NoManifest, Manifest("invalid", "", "", << >>, << >>) }
    \cup { Manifest("valid", "", "ext", d, dd) : d \in DepLists(MaxDeps), dd \in DepLists(MaxDeps) }

CheckManifest ==
    /\ ~depOut.done
    /\ depOut' = [done |-> TRUE, issues |-> PackageIssues(pkg)]
    /\ UNCHANGED <<now, files, dirs, calls, lastIndex, content, scanOut, pkg>>
    /\ UNCHANGED <<statSize, sizeOut, scanned, report, lifecycle, units>>

---------------------------------------------------------------------------
(* The size check on one archive *)

Sizes == (MaxSizeMB * BytesPerMB - SizeSpan)..(MaxSizeMB * BytesPerMB + SizeSpan)

CheckSize ==
    /\ ~sizeOut.done
    /\ sizeOut' = [done |-> TRUE, issues |-> SizeIssues(statSize)]
    /\ UNCHANGED <<now, files, dirs, calls, lastIndex, content, scanOut, pkg, depOut>>
    /\ UNCHANGED <<statSize, scanned, report, lifecycle, units>>

---------------------------------------------------------------------------
(* The formatter on one ScanResult *)

(* Source files for the issues of the results under test. *)
SampleTexts ==
    { << ".unlinkSync(", "'.vscode'", "'.arduinoIDE'" >>,
      << ".unlinkSync(", "'.vscode'" >>,
      << "'.ssh'", ".rmSync(", "'.myhelper'", "recursive" >>,
      << "eval(" >>,
      << "os.homedir()", "'Documents'", "'.ssh'" >>,
      << "os.homedir()", "'.ssh'" >>,
      << "_0x1a2b", "\\x41" >> }

(* The issues scanExtractedCode, checkPackageJson and checkFileSize give *)
(* for them, for two blocked dependencies and for a large archive.       *)
SampleIssues ==
    { ScanFile(TestFile(c), [k \in 1..Len(indicators) |-> 0])[1] : c \in SampleTexts }
    \cup { PackageIssues(Manifest("valid", "", "ext", << Dep(name, "^1.0.0") >>, << >>))[1] :
             name \in { "keytar", "ssh2" } }
    \cup { SizeIssues(60000000)[1] }

(* The part of scanVsix an issue comes from. *)
PartOf(issue) ==
    IF issue.message = "security.largeFile" THEN 3
    ELSE IF issue.message = "security.suspiciousDependency" THEN 2
    ELSE 1

(* A list scanVsix can return: code issues, then the manifest issues in *)
(* the order of suspiciousDeps, then the size issue.                    *)
Returnable(issues) ==
    \A i \in 1..Len(issues) : \A j \in (i + 1)..Len(issues) :
        /\ PartOf(issues[i]) <= PartOf(issues[j])
        /\ PartOf(issues[i]) = 3 => FALSE
        /\ (PartOf(issues[i]) = 2 /\ PartOf(issues[j]) = 2)
              => \E a \in 1..Len(suspiciousDeps) : \E b \in (a + 1)..Len(suspiciousDeps) :
                    /\ issues[i].details.text = suspiciousDeps[a]
                    /\ issues[j].details.text = suspiciousDeps[b]

RECURSIVE IssueLists(_)
IssueLists(n) ==
    IF n = 0 THEN { << >> }
    ELSE LET shorter == IssueLists(n - 1)
         IN shorter \cup { Append(l, i) : l \in { x \in shorter : Len(x) = n - 1 },
                                          i \in SampleIssues }

Results == { ScanResult(l, "") : l \in { x \in IssueLists(MaxIssues) : Returnable(x) } }

Format ==
    /\ report = << >>
    /\ report' = formatUserFriendly(scanned)
    /\ UNCHANGED <<now, files, dirs, calls, lastIndex, content, scanOut, pkg, depOut>>
    /\ UNCHANGED <<statSize, sizeOut, scanned, lifecycle, units>>

---------------------------------------------------------------------------
(* Specifications *)

WorkspaceIdle ==
    /\ now = 0
    /\ files = InitFiles
    /\ dirs = InitDirs
    /\ calls = [p \in Calls |-> IdleCall]
    /\ lastIndex = [k \in 1..Len(indicators) |-> 0]

ScannerIdle == content = << >> /\ scanOut = NotScanned

ManifestIdle == pkg = NoManifest /\ depOut = NotScanned

SizeIdle == statSize = 0 /\ sizeOut = NotScanned

FormatIdle == scanned = ScanResult(<< >>, "") /\ report = << >>

(* The manager and the other extension, installed and enabled, and an *)
(* archive a.vsix installed; no call.                                 *)
LifecycleIdle ==
    /\ extensionsDir = [f \in {VsixFileName(managerDir), VsixFileName(toolDir), "a.vsix"}
                           |-> File]
    /\ deployedDir = [d \in {managerDir, toolDir} |-> Whole(d)]
    /\ disabledDir = EmptyDir
    /\ configDirs = Configured
    /\ ops = [p \in Ops |-> IdleOp]
    /\ parked = [d \in PluginDirs |-> NotParked]
    /\ upgraded = NotUpgraded

ListingIdle == listing = NotListed

ClassifyIdle ==
    /\ archive = "a.vsix"
    /\ versions = << << >>, << >> >>
    /\ classified = NotClassified

Init ==
    /\ WorkspaceIdle /\ LifecycleIdle /\ ScannerIdle /\ ManifestIdle /\ SizeIdle /\ FormatIdle
    /\ ListingIdle /\ ClassifyIdle

Next ==
    \/ Tick
    \/ \E p \in Calls, vsixPath \in BundlePaths : CallScanVsix(p, vsixPath)
    \/ \E p \in Calls, vsixPath \in BundlePaths : CallInstallExtension(p, vsixPath)
    \/ \E p \in Calls : ScanCatch(p)
    \/ \E p \in Calls : ScanCode(p)
    \/ \E p \in Calls : ScanPackage(p)
    \/ \E p \in Calls : ScanFinish(p)
    \/ \E p \in Calls : InfoCatch(p)
    \/ \E p \in Calls : InfoFinish(p)
    \/ \E p \in Calls : InstallInfoFailed(p)
    \/ \E p \in Calls : InstallScan(p)
    \/ \E p \in Calls : InstallFinish(p)

Spec == Init /\ [][Next]_vars

InitScan ==
    /\ WorkspaceIdle /\ LifecycleIdle /\ ManifestIdle /\ SizeIdle /\ FormatIdle
    /\ ListingIdle /\ ClassifyIdle
    /\ content \in Texts(MaxContentLen)
    /\ scanOut = NotScanned

NextScan == ScanContent

SpecScan == InitScan /\ [][NextScan]_vars

InitManifest ==
    /\ WorkspaceIdle /\ LifecycleIdle /\ ScannerIdle /\ SizeIdle /\ FormatIdle
    /\ ListingIdle /\ ClassifyIdle
    /\ pkg \in Manifests
    /\ depOut = NotScanned

NextManifest == CheckManifest

SpecManifest == InitManifest /\ [][NextManifest]_vars

InitFormat ==
    /\ WorkspaceIdle /\ LifecycleIdle /\ ScannerIdle /\ ManifestIdle /\ SizeIdle
    /\ ListingIdle /\ ClassifyIdle
    /\ scanned \in Results
    /\ report = << >>

NextFormat == Format

SpecFormat == InitFormat /\ [][NextFormat]_vars

InitSize ==
    /\ WorkspaceIdle /\ LifecycleIdle /\ ScannerIdle /\ ManifestIdle /\ FormatIdle
    /\ ListingIdle /\ ClassifyIdle
    /\ statSize \in Sizes
    /\ sizeOut = NotScanned

NextSize == CheckSize

SpecSize == InitSize /\ [][NextSize]_vars

(* The manager runs, so it is deployed; its archive may be gone.  The   *)
(* other extension is enabled, disabled or not deployed; its archive is *)
(* in the extensions directory, in the disabled directory, where a      *)
(* disableExtension puts it and an enableExtension whose renameSync     *)
(* threw leaves it, or gone; and there is all, a part or none of what   *)
(* its uninstall.json lists.                                            *)
InitLifecycle ==
    /\ WorkspaceIdle /\ ScannerIdle /\ ManifestIdle /\ SizeIdle /\ FormatIdle
    /\ ListingIdle /\ ClassifyIdle
    /\ ops = [p \in Ops |-> IdleOp]
    /\ parked = [d \in PluginDirs |-> NotParked]
    /\ upgraded = NotUpgraded
    /\ \E managerVsix \in SUBSET {VsixFileName(managerDir)},
          toolStatus \in {"enabled", "disabled", "none"},
          toolVsix \in {"extensions", "disabled", "none"} :
          /\ deployedDir = [d \in {managerDir}
                                    \cup (IF toolStatus = "enabled" THEN {toolDir} ELSE {})
                              |-> Whole(d)]
          /\ disabledDir = [n \in (IF toolStatus = "disabled" THEN {toolDir} ELSE {})
                                    \cup (IF toolVsix = "disabled"
                                          THEN {VsixFileName(toolDir)} ELSE {})
                              |-> IF n = toolDir THEN Whole(toolDir) ELSE File]
          /\ extensionsDir = [f \in managerVsix
                                     \cup (IF toolVsix = "extensions"
                                           THEN {VsixFileName(toolDir)} ELSE {})
                                |-> File]
    /\ configDirs \in { Configured, Configured \ {toolConfigDir}, {} }

NextLifecycle ==
    \/ \E p \in Ops, extensionId \in ExtensionIds : CallEnableExtension(p, extensionId)
    \/ \E p \in Ops, extensionId \in ExtensionIds : CallDisableExtension(p, extensionId)
    \/ \E p \in Ops, extensionId \in ExtensionIds : CallUninstallExtension(p, extensionId)
    \/ \E p \in Ops : ExtensionScanned(p)
    \/ \E p \in Ops, fault \in Faults : EnableFinish(p, fault)
    \/ \E p \in Ops, fault \in Faults : DisableFinish(p, fault)
    \/ \E p \in Ops, fault \in Faults, failing \in SUBSET {toolConfigDir, toolConfigFile} :
          UninstallFinish(p, fault, failing)
    \/ \E p \in Ops, fault \in Faults : UninstallCleanup(p, fault)

SpecLifecycle == InitLifecycle /\ [][NextLifecycle]_vars

(* Any archives of the two extensions installed, the other extension *)
(* deployed, disabled or neither, in one version or the other.       *)
InitUpgrade ==
    /\ WorkspaceIdle /\ ScannerIdle /\ ManifestIdle /\ SizeIdle /\ FormatIdle
    /\ ListingIdle /\ ClassifyIdle
    /\ configDirs = Configured
    /\ ops = [p \in Ops |-> IdleOp]
    /\ parked = [d \in PluginDirs |-> NotParked]
    /\ upgraded = NotUpgraded
    /\ \E archives \in SUBSET (VsixFiles \cup {"vendor.tool.vsix"}) :
          extensionsDir = [f \in archives |-> File]
    /\ \E plugins \in SUBSET {toolDir, newToolDir} :
          deployedDir = [d \in plugins \cup {managerDir} |-> Whole(d)]
    /\ \E plugins \in SUBSET {toolDir}, archives \in SUBSET {VsixFileName(toolDir)} :
          disabledDir = [n \in plugins \cup archives |->
                           IF n \in plugins THEN Whole(n) ELSE File]

(* performInstallation calls upgradeExtension for every action but install. *)
NextUpgrade ==
    \E newFileName \in VsixFiles, fault \in Faults :
        /\ ActionFor(newFileName, extensionsDir) # "install"
        /\ UpgradeExtension(newFileName, fault)

SpecUpgrade == InitUpgrade /\ [][NextUpgrade]_vars

(* Any content of the three directories: archives of the two versions  *)
(* and of a third, plugin directories whole or without package.json.   *)
InitListing ==
    /\ WorkspaceIdle /\ ScannerIdle /\ ManifestIdle /\ SizeIdle /\ FormatIdle
    /\ ClassifyIdle
    /\ configDirs = Configured
    /\ ops = [p \in Ops |-> IdleOp]
    /\ parked = [d \in PluginDirs |-> NotParked]
    /\ upgraded = NotUpgraded
    /\ \E plugins \in SUBSET {toolDir, newToolDir},
          archives \in SUBSET { VsixFileName(toolDir), VsixFileName(newToolDir) } :
          \E contents \in [plugins -> {{"package.json"}, {}}] :
             disabledDir = [n \in plugins \cup archives |->
                              IF n \in plugins THEN contents[n] ELSE File]
    /\ \E plugins \in SUBSET {toolDir, newToolDir} :
          \E contents \in [plugins -> {{"package.json"}, {}}] :
             deployedDir = [d \in plugins \cup {managerDir} |->
                              IF d = managerDir THEN Whole(d) ELSE contents[d]]
    /\ \E archives \in SUBSET ListedArchives : extensionsDir = [f \in archives |-> File]
    /\ listing = NotListed

NextListing == ScanDirectories

SpecListing == InitListing /\ [][NextListing]_vars

(* Two versions of up to MaxParts parts; or an archive, and up to *)
(* MaxArchives archives installed.                                *)
InitClassify ==
    /\ WorkspaceIdle /\ ScannerIdle /\ ManifestIdle /\ SizeIdle /\ FormatIdle
    /\ ListingIdle
    /\ deployedDir = [d \in {managerDir} |-> Whole(d)]
    /\ disabledDir = EmptyDir
    /\ configDirs = Configured
    /\ ops = [p \in Ops |-> IdleOp]
    /\ parked = [d \in PluginDirs |-> NotParked]
    /\ upgraded = NotUpgraded
    /\ classified = NotClassified
    /\ \/ /\ versions \in Versions \X Versions
          /\ archive = "a.vsix"
          /\ extensionsDir = EmptyDir
       \/ /\ versions = << << >>, << >> >>
          /\ archive \in ArchiveNames
          /\ extensionsDir \in Listings(MaxArchives)

NextClassify == Classify

SpecClassify == InitClassify /\ [][NextClassify]_vars

---------------------------------------------------------------------------
(* Properties *)

Settled(p) == calls[p].pc \in {"s_resolved", "s_rejected", "done"} /\ calls[p].tempDir # NoDirName

(* The scratch directory of call p exists and is no other call's. *)
DirLeft(p) ==
    /\ calls[p].tempDir # NoDirName
    /\ dirs[calls[p].tempDir].exists
    /\ \A q \in Calls \ {p} : calls[q].tempDir # calls[p].tempDir

(* A file of the scan workspace that call p wrote is still there. *)
StagedLeft(p) == \E f \in AllPaths : f.dir = checkDir /\ files[f].by = p

(* C1: once a call of scanVsix has finished, returned or thrown, the scan *)
(* workspace holds neither its scratch directory nor a staged copy it     *)
(* made of the archive.                                                   *)
C1_NoScratchAfterScan ==
    \A p \in Calls : Settled(p) => ~DirLeft(p) /\ ~StagedLeft(p)

(* C2: when the scan of a bundle failed because the bundle could not be  *)
(* extracted, installExtension hands no scan result with safe = true to  *)
(* its caller.                                                           *)
C2_UnanalyzedNeverSafe ==
    \A p \in Calls :
        (calls[p].kind = "install" /\ calls[p].pc = "done" /\ calls[p].thrownBy = "extract")
        => \A i \in 1..Len(calls[p].ret) :
              \A j \in 1..Len(calls[p].ret[i].scanResult) :
                 ~calls[p].ret[i].scanResult[j].safe

(* C3: extractVsix tries tar only after unzip has failed and throws only *)
(* when both have failed; scanVsix then throws the error on, returns no  *)
(* ScanResult, and its cleanup has run by the time the promise is        *)
(* rejected.                                                             *)
C3_FallbackThenRethrow ==
    \A p \in Calls :
        LET c == calls[p]
        IN /\ c.tools # << >> => c.tools[1] = "unzip"
           /\ (\E i \in 1..Len(c.tools) : c.tools[i] = "tar")
                 => c.tools = << "unzip", "tar" >> /\ ~c.env.unzip
           /\ c.thrownBy = "extract" <=> (c.tools # << >> /\ ~c.env.unzip /\ ~c.env.tar)
           /\ (c.thrownBy = "extract" /\ c.pc # "s_throwing")
                 => c.cleaned /\ c.result = << >> /\ ~DirLeft(p) /\ ~c.extracted

C3_Witness ==
    \E p \in Calls :
        /\ calls[p].pc = "s_rejected"
        /\ calls[p].thrownBy = "extract"
        /\ calls[p].tools = << "unzip", "tar" >>
        /\ calls[p].cleaned

(* C4: two scans in flight at the same time never use the same scratch *)
(* directory.                                                          *)
C4_DistinctScratchDirs ==
    \A p \in Calls : \A q \in Calls \ {p} :
        ScanInFlight(p) /\ ScanInFlight(q) => calls[p].tempDir # calls[q].tempDir

(* C5: what a scan in flight has staged in the workspace is neither      *)
(* overwritten nor deleted by another scan: while the scan is in flight, *)
(* its staged copy is there as it wrote it.                              *)
C5_StagedCopyIntact ==
    \A p \in Calls :
        (InFlight(p) /\ calls[p].copies > 0 /\ StagedPath(calls[p].path) # calls[p].path)
        => files[StagedPath(calls[p].path)].by = p

(* C6: once extraction has succeeded, no later step makes scanVsix throw. *)
C6_NoAbortAfterExtraction ==
    \A p \in Calls : calls[p].extracted => calls[p].thrownBy = ""

(* C7: a ScanResult returned by scanVsix has safe = true exactly when its *)
(* issues list is empty; the list holds every issue the scan found.       *)
C7_SafeIffNoIssues ==
    \A p \in Calls :
        \A i \in 1..Len(calls[p].result) :
            LET r == calls[p].result[i]
            IN /\ r.safe <=> r.issues = << >>
               /\ r.issues = calls[p].issues
               /\ calls[p].packageIssues # << >> => ~r.safe

C7_Witness ==
    \E p \in Calls : \E q \in Calls :
        /\ calls[p].result # << >> /\ calls[p].result[1].safe
        /\ calls[q].result # << >> /\ Len(calls[q].result[1].issues) = 2

(* C8: no step of scanVsix changes or deletes the file at the path the *)
(* call was given.                                                     *)
C8_OriginalUntouched ==
    [][\A p \in Calls :
          (calls'[p] # calls[p] /\ calls'[p].pc \in ScanPcs \cup {"s_resolved", "s_rejected"})
          => files'[calls'[p].path] = files[calls'[p].path]]_vars

(* C9: installExtension given a path that does not exist or does not end  *)
(* in .vsix answers error.invalidVsix with nothing copied into the scan   *)
(* workspace, no scratch directory made and no extraction attempted.      *)
C9_InvalidPathRejectedFirst ==
    \A p \in Calls :
        (calls[p].kind = "install" /\ (~calls[p].existed \/ ~endsWith(calls[p].path, ".vsix")))
        => /\ calls[p].pc = "done"
           /\ calls[p].ret = << Return(FALSE, "error.invalidVsix", << >>) >>
           /\ calls[p].copies = 0
           /\ calls[p].tools = << >>
           /\ calls[p].infoDir = NoDirName
           /\ calls[p].tempDir = NoDirName
           /\ ~StagedLeft(p)

C9_Witness ==
    \E p \in Calls : \E q \in Calls :
        /\ calls[p].kind = "install" /\ ~calls[p].existed /\ calls[p].pc = "done"
        /\ calls[q].kind = "install" /\ calls[q].existed
        /\ ~endsWith(calls[q].path, ".vsix") /\ calls[q].pc = "done"

SuspiciousPathIssues(issues) ==
    { i \in 1..Len(issues) : issues[i].message = "security.suspiciousPath" }

(* C10: when the sensitive-path rule matches in a file, no issue of that *)
(* rule is emitted if the matched text matches an allow-list entry, and  *)
(* exactly one, of severity high, if it matches none.                    *)
C10_AllowListSuppression ==
    scanOut.done =>
        LET m == Match(suspiciousPatterns[1].pattern, content)
            n == SuspiciousPathIssues(scanOut.issues)
        IN m.found =>
             IF \E k \in 1..Len(allowedPaths) :
                   TestEntry(allowedPaths[k], MatchedText(m, content))
             THEN n = {}
             ELSE /\ Cardinality(n) = 1
                  /\ \A i \in n : /\ scanOut.issues[i].severity = "high"
                                  /\ scanOut.issues[i].file = RelativePath(TestFile(content))
                                  /\ scanOut.issues[i].match = MatchedText(m, content)

C10_Witness ==
    /\ scanOut.done
    /\ Len(content) = 3
    /\ Match(suspiciousPatterns[1].pattern, content).found
    /\ content[2] \in allowedPaths[4]
    /\ SuspiciousPathIssues(scanOut.issues) = {}

ObfuscationIssues(issues) ==
    { i \in 1..Len(issues) : issues[i].message = "security.obfuscatedCode" }

(* The indicators of isObfuscated that are present in a text. *)
IndicatorsIn(c) == { k \in 1..Len(indicators) : Match(indicators[k], c).found }

(* C11: a file gets no obfuscation issue when fewer than 2 of the 4       *)
(* indicators are present in it and exactly one, of severity high and     *)
(* naming the file, when 2 or more are, whichever catalog rules matched.  *)
C11_ObfuscationThreshold ==
    scanOut.done =>
        LET n == ObfuscationIssues(scanOut.issues)
        IN IF Cardinality(IndicatorsIn(content)) >= 2
           THEN /\ Cardinality(n) = 1
                /\ \A i \in n : /\ scanOut.issues[i].severity = "high"
                                 /\ scanOut.issues[i].file = RelativePath(TestFile(content))
                                 /\ i = Len(scanOut.issues)
           ELSE n = {}

(* Two of the indicators and a match of the eval rule in one file. *)
C11_Witness ==
    /\ scanOut.done
    /\ Cardinality(IndicatorsIn(content)) = 2
    /\ MatchRule(3, content).found
    /\ Cardinality(ObfuscationIssues(scanOut.issues)) = 1
    /\ Len(scanOut.issues) = 2

(* The fragments some pattern of the catalog or some indicator looks at. *)
PatternTokens ==
    UNION { suspiciousPatterns[k].pattern.start \cup suspiciousPatterns[k].pattern.needs
               \cup suspiciousPatterns[k].pattern.unless : k \in 1..Len(suspiciousPatterns) }
    \cup fileDeleteRecursive.start \cup fileDeleteRecursive.needs
    \cup UNION { indicators[k].start \cup indicators[k].needs : k \in 1..Len(indicators) }

(* The issues of catalog rule k in a list. *)
IssuesOfRule(k, issues) ==
    { i \in 1..Len(issues) : issues[i].message = suspiciousPatterns[k].message }

Allowed(text) == \E a \in 1..Len(allowedPaths) : TestEntry(allowedPaths[a], text)

(* c with the text of match m taken out. *)
Remove(c, m) == SubSeq(c, 1, m.from - 1) \o SubSeq(c, m.to + 1, Len(c))

(* c holds the pattern of rule k and of no other rule or indicator: rule *)
(* k matches, no other rule and no indicator does, and outside the match *)
(* there is no fragment any pattern looks at.                            *)
OnlyRule(k, c) ==
    LET m == MatchRule(k, c)
    IN /\ m.found
       /\ k = 1 => ~Allowed(MatchedText(m, c))
       /\ \A j \in 1..Len(suspiciousPatterns) : j # k => ~MatchRule(j, c).found
       /\ IndicatorsIn(c) = {}
       /\ \A i \in 1..Len(c) : (i < m.from \/ i > m.to) => c[i] \notin PatternTokens

(* C12: each catalog rule triggers on its own: a file has one issue of a *)
(* rule, with the severity and message key of the rule, when the pattern *)
(* of the rule matches in it (and, for the sensitive-path rule, the      *)
(* match is not allow-listed) and none otherwise, whatever the other     *)
(* rules do; a file that holds the pattern of one rule only has exactly  *)
(* that one issue, and none once the matched text is taken out.          *)
C12_RulesIndependent ==
    scanOut.done =>
        \A k \in 1..Len(suspiciousPatterns) :
            LET m == MatchRule(k, content)
                n == IssuesOfRule(k, scanOut.issues)
            IN /\ IF m.found /\ ~(k = 1 /\ Allowed(MatchedText(m, content)))
                  THEN /\ Cardinality(n) = 1
                       /\ \A i \in n :
                             scanOut.issues[i].severity = suspiciousPatterns[k].severity
                  ELSE n = {}
               /\ OnlyRule(k, content)
                    => /\ Len(scanOut.issues) = 1
                       /\ ScanFiles(findJsFiles(<< TestFile(Remove(content, m)) >>),
                                    lastIndex).issues = << >>

(* A file that holds the remote-require pattern between two other *)
(* fragments, and nothing of another rule.                         *)
C12_Witness ==
    /\ scanOut.done
    /\ Len(content) = 3
    /\ OnlyRule(7, content)
    /\ MatchRule(7, content).from = 2
    /\ Len(scanOut.issues) = 1
    /\ scanOut.issues[1].severity = "critical"
    /\ scanOut.issues[1].message = "security.remoteRequire"

(* A directory named node_modules lies on the way to the file. *)
UnderNodeModules(f) == "node_modules" \in { f.dirs[i] : i \in 1..Len(f.dirs) }

(* The source files the archives hold under / outside a node_modules. *)
VendorFiles ==
    { f \in UNION { { Bundle(ContentOrder[b]).tree[i] :
                        i \in 1..Len(Bundle(ContentOrder[b]).tree) } :
                    b \in 1..Len(ContentOrder) } : UnderNodeModules(f) }

OwnFiles ==
    { f \in UNION { { Bundle(ContentOrder[b]).tree[i] :
                        i \in 1..Len(Bundle(ContentOrder[b]).tree) } :
                    b \in 1..Len(ContentOrder) } : ~UnderNodeModules(f) }

(* The rules whose pattern occurs in the archives under node_modules only. *)
VendorOnlyRules ==
    { k \in 1..Len(suspiciousPatterns) :
        /\ \E f \in VendorFiles : MatchRule(k, f.content).found
        /\ \A f \in OwnFiles : ~MatchRule(k, f.content).found }

(* C13: no issue of a scan names a file that lies beneath a directory    *)
(* named node_modules, at whatever depth, and a pattern that occurs in   *)
(* such files only gives no issue.                                       *)
C13_NodeModulesSkipped ==
    \A p \in Calls : \A i \in 1..Len(calls[p].issues) :
        /\ ~UnderNodeModules(calls[p].issues[i].file)
        /\ \A k \in VendorOnlyRules :
              calls[p].issues[i].message # suspiciousPatterns[k].message

(* Both archives with source files under a node_modules (one directly in *)
(* the extension folder, one three folders down) have been scanned.      *)
C13_Witness ==
    /\ Cardinality(VendorOnlyRules) = 2
    /\ \E p \in Calls : \E q \in Calls :
          /\ calls[p].pc = "s_resolved" /\ calls[p].path = Path("dl", "a", ".vsix")
          /\ calls[p].issues # << >>
          /\ calls[q].pc = "s_resolved" /\ calls[q].path = Path("dl", "e", ".vsix")
          /\ calls[q].issues # << >>

(* The names of suspiciousDeps that the manifest m declares. *)
DeclaredBlocked(m) ==
    { suspiciousDeps[k] : k \in 1..Len(suspiciousDeps) }
    \cap ({ m.dependencies[i].name : i \in 1..Len(m.dependencies) }
          \cup { m.devDependencies[i].name : i \in 1..Len(m.devDependencies) })

(* C14: checkPackageJson gives one issue, of severity medium and with    *)
(* the name as details, for every blocked name the manifest declares in  *)
(* dependencies or devDependencies, whatever the version declared, and   *)
(* no other issue; it gives none for a missing or invalid manifest.      *)
C14_BlockedDepsReported ==
    depOut.done =>
        IF pkg.state # "valid" THEN depOut.issues = << >>
        ELSE /\ \A name \in DeclaredBlocked(pkg) :
                   Cardinality({ i \in 1..Len(depOut.issues) :
                                   depOut.issues[i].details.text = name }) = 1
             /\ \A i \in 1..Len(depOut.issues) :
                   /\ depOut.issues[i].severity = "medium"
                   /\ depOut.issues[i].message = "security.suspiciousDependency"
                   /\ depOut.issues[i].details.text \in DeclaredBlocked(pkg)

(* C15: checkFileSize gives an issue, one and of severity low, exactly  *)
(* when the archive is larger than 52,428,800 bytes.                    *)
C15_SizeLimitStrict ==
    sizeOut.done =>
        IF statSize > 52428800
        THEN /\ Len(sizeOut.issues) = 1
             /\ sizeOut.issues[1].severity = "low"
             /\ sizeOut.issues[1].message = "security.largeFile"
        ELSE sizeOut.issues = << >>

(* The archive of 50 MB and one byte: one issue, "50.0 MB". *)
C15_Witness ==
    /\ sizeOut.done
    /\ statSize = 52428800 + 1
    /\ Len(sizeOut.issues) = 1
    /\ sizeOut.issues[1].details = [text |-> "MB", tenths |-> 500]

(* Call p was under way at a time when another call was. *)
Overlapped(p) == calls[p].among # {} \/ \E q \in Calls : p \in calls[q].among

(* What the scan of an archive with content c finds in it. *)
IssuesIn(c) ==
    ScanFiles(findJsFiles(Bundle(c).tree), [k \in 1..Len(indicators) |-> 0]).issues
    \o PackageIssues(Bundle(c).manifest) \o SizeIssues(Bundle(c).size)

RECURSIVE BagOf(_)
BagOf(issues) ==
    IF issues = << >> THEN EmptyBag ELSE SetToBag({Head(issues)}) (+) BagOf(Tail(issues))

(* C16: scans that do not overlap another call return issues that depend *)
(* on the content of the archive only: two of them on the same content   *)
(* return the same multiset, whatever was scanned before or in between.  *)
C16_ScanDeterministic ==
    \A p \in Calls :
        (calls[p].result # << >> /\ ~Overlapped(p))
        => /\ calls[p].result[1].issues = IssuesIn(InitFiles[calls[p].path].content)
           /\ \A q \in Calls :
                 (/\ calls[q].result # << >> /\ ~Overlapped(q)
                  /\ InitFiles[calls[q].path].content = InitFiles[calls[p].path].content)
                 => BagOf(calls[q].result[1].issues) = BagOf(calls[p].result[1].issues)

(* The archive whose one source file has the indicator with the g flag, *)
(* scanned twice, one scan after the other.                             *)
C16_Witness ==
    /\ lastIndex[4] # 0
    /\ \A p \in Calls :
          /\ calls[p].pc = "s_resolved" /\ ~Overlapped(p)
          /\ calls[p].path = Path("dl", "d", ".zip")
          /\ Len(calls[p].result[1].issues) = 2
          /\ \E i \in 1..2 : calls[p].result[1].issues[i].message = "security.obfuscatedCode"

(* The place of x in the sequence seq, 0 when it is not in it. *)
IndexIn(seq, x) ==
    IF \E i \in 1..Len(seq) : seq[i] = x
    THEN CHOOSE i \in 1..Len(seq) : seq[i] = x
    ELSE 0

RuleMessages == [k \in 1..Len(suspiciousPatterns) |-> suspiciousPatterns[k].message]

(* Where an issue of the scan of an archive with tree `tree` belongs:    *)
(* the part of the scan, then the file (code) or the name (manifest),    *)
(* then the rule, the obfuscation test coming after the rules.           *)
Rank(issue, tree) ==
    IF issue.message = "security.largeFile" THEN << 3, 0, 0 >>
    ELSE IF issue.message = "security.suspiciousDependency"
    THEN << 2, IndexIn(suspiciousDeps, issue.details.text), 0 >>
    ELSE << 1,
            CHOOSE i \in 1..Len(tree) : RelativePath(tree[i]) = issue.file,
            IF issue.message = "security.obfuscatedCode"
            THEN Len(suspiciousPatterns) + 1
            ELSE IndexIn(RuleMessages, issue.message) >>

Before(r, t) ==
    \/ r[1] < t[1]
    \/ r[1] = t[1] /\ r[2] < t[2]
    \/ r[1] = t[1] /\ r[2] = t[2] /\ r[3] < t[3]

(* The files of a tree that scanExtractedCode reads and rule k matches. *)
FilesMatching(k, tree) ==
    { i \in 1..Len(tree) :
        /\ tree[i].ext = ".js" /\ ~UnderNodeModules(tree[i]) /\ tree[i].readable
        /\ MatchRule(k, tree[i].content).found
        /\ ~(k = 1 /\ Allowed(MatchedText(MatchRule(k, tree[i].content), tree[i].content))) }

(* C19: in the issues of a ScanResult the code issues come first, then    *)
(* the manifest issues, then the size issue; in a scan that overlaps no   *)
(* other call the code issues stand file by file in the order of          *)
(* enumeration and, for one file, in the order of the rules with the      *)
(* obfuscation issue behind them, and every file a rule matches in has    *)
(* its own issue of the rule.                                             *)
C19_IssueOrder ==
    \A p \in Calls :
        calls[p].result # << >> =>
            LET issues == calls[p].result[1].issues
                tree   == Bundle(InitFiles[calls[p].path].content).tree
                Part(i) == IF issues[i].message = "security.largeFile" THEN 3
                           ELSE IF issues[i].message = "security.suspiciousDependency"
                           THEN 2 ELSE 1
            IN /\ \A i \in 1..Len(issues) : \A j \in (i + 1)..Len(issues) :
                     Part(i) <= Part(j)
               /\ ~Overlapped(p) =>
                     /\ \A i \in 1..Len(issues) : \A j \in (i + 1)..Len(issues) :
                           Before(Rank(issues[i], tree), Rank(issues[j], tree))
                     /\ \A k \in 1..Len(suspiciousPatterns) :
                           Cardinality(IssuesOfRule(k, issues))
                              = Cardinality(FilesMatching(k, tree))

(* The archive with the eval rule matching in two files, an obfuscated   *)
(* file, two blocked dependencies and more than 50 MB: seven issues.     *)
C19_Witness ==
    \E p \in Calls :
        /\ calls[p].result # << >> /\ ~Overlapped(p)
        /\ calls[p].path = Path("dl", "e", ".vsix")
        /\ Messages(calls[p].result[1].issues)
             = << "security.evalFound", "security.obfuscatedCode", "security.evalFound",
                  "security.fileDelete", "security.suspiciousDependency",
                  "security.suspiciousDependency", "security.largeFile" >>

(* The directories an issue names for the report: those of a file-delete *)
(* issue whose name behind the dot has 5 characters or more.             *)
DirsNamed(issue) ==
    IF issue.message # "security.fileDelete" THEN {}
    ELSE { HomePath(DotName(issue.fullContent[i])) :
             i \in { j \in 1..Len(issue.fullContent) :
                       Length(DotName(issue.fullContent[j])) >= 6 } }

(* The sub-lines that follow line i of the report. *)
RECURSIVE SubsAfter(_)
SubsAfter(i) ==
    IF i + 1 <= Len(report) /\ report[i + 1].kind = "sub"
    THEN << report[i + 1].inline.text >> \o SubsAfter(i + 1)
    ELSE << >>

MessageKeys(issues) == { issues[i].message : i \in 1..Len(issues) }

(* C17: the report has one main line for every message key among the    *)
(* issues, and beneath it the directories named by the issues of that    *)
(* key, all of them, each once, in sorted order.                         *)
C17_GroupedSubPaths ==
    report # << >> /\ ~scanned.safe =>
        /\ Cardinality({ i \in 1..Len(report) : report[i].kind = "main" })
             = Cardinality(MessageKeys(scanned.issues))
        /\ \A k \in MessageKeys(scanned.issues) :
              LET mains == { i \in 1..Len(report) :
                               report[i].kind = "main" /\ report[i].key = k }
                  named == UNION { DirsNamed(scanned.issues[i]) :
                                     i \in { j \in 1..Len(scanned.issues) :
                                               scanned.issues[j].message = k } }
              IN /\ Cardinality(mains) = 1
                 /\ \A i \in mains :
                       LET subs == SubsAfter(i)
                       IN /\ { subs[n] : n \in 1..Len(subs) } = named
                          /\ \A a \in 1..Len(subs) : \A b \in (a + 1)..Len(subs) :
                                IndexIn(SortOrder, subs[a]) < IndexIn(SortOrder, subs[b])

(* Three file-delete issues naming three directories, one of them twice: *)
(* one main line and three sub-lines.                                    *)
C17_Witness ==
    /\ Len(scanned.issues) = 3
    /\ \A i \in 1..3 : scanned.issues[i].message = "security.fileDelete"
    /\ \E i \in 1..3 : \E j \in 1..3 :
          i # j /\ DirsNamed(scanned.issues[i]) \cap DirsNamed(scanned.issues[j]) # {}
    /\ Len(report) = 8
    /\ report[4] = Line("main", "security.fileDelete", NoInline)
    /\ SubsAfter(4) = << "~/arduinoIDE", "~/myhelper", "~/vscode" >>

(* The lines of the report from line i up to the next blank line. *)
RECURSIVE UpToBlank(_)
UpToBlank(i) ==
    IF i > Len(report) \/ report[i].kind = "blank" THEN << >>
    ELSE << report[i] >> \o UpToBlank(i + 1)

(* The place of the first issue with message key k. *)
FirstOf(k, issues) ==
    CHOOSE i \in 1..Len(issues) :
        issues[i].message = k /\ \A j \in 1..(i - 1) : issues[j].message # k

(* C18: the report of a safe result is the one no-issues line; that of   *)
(* an unsafe result has, behind the legend, a section for each severity  *)
(* that an issue has and for no other, in the order critical, high,      *)
(* medium, low, and in a section the groups stand in the order in which  *)
(* their message key comes first in the issues.                          *)
C18_SectionOrder ==
    report # << >> =>
        IF scanned.safe
        THEN report = << Line("noIssues", "security.noIssues", NoInline) >>
        ELSE LET headers == SelectSeq(report, LAMBDA l : l.kind = "header")
                 present == SelectSeq(<< "critical", "high", "medium", "low" >>,
                               LAMBDA v : \E i \in 1..Len(scanned.issues) :
                                             scanned.issues[i].severity = v)
             IN /\ report[1].kind = "legend" /\ report[2].kind = "blank"
                /\ report[Len(report)].kind = "blank"
                /\ [i \in 1..Len(headers) |-> headers[i].key] = present
                /\ \A h \in 1..Len(report) :
                      report[h].kind = "header" =>
                        LET mains == SelectSeq(UpToBlank(h + 1), LAMBDA l : l.kind = "main")
                            ofSev == { scanned.issues[i].message :
                                         i \in { j \in 1..Len(scanned.issues) :
                                                   scanned.issues[j].severity = report[h].key } }
                        IN /\ (h = 3 \/ report[h - 1].kind = "blank")
                           /\ { mains[i].key : i \in 1..Len(mains) } = ofSev
                           /\ Len(mains) = Cardinality(ofSev)
                           /\ \A a \in 1..Len(mains) : \A b \in (a + 1)..Len(mains) :
                                 FirstOf(mains[a].key, scanned.issues)
                                    < FirstOf(mains[b].key, scanned.issues)

(* A result whose issues are an obfuscation issue, a critical one and a *)
(* sensitive-path issue: the critical section first, then the section   *)
(* high with the obfuscation group before the sensitive-path group.     *)
C18_Witness ==
    /\ Messages(scanned.issues)
         = << "security.obfuscatedCode", "security.evalFound", "security.suspiciousPath" >>
    /\ [i \in 1..Len(report) |-> report[i].key]
         = << "security.severity.legend", "", "critical", "security.evalFound", "",
              "high", "security.obfuscatedCode", "security.suspiciousPath", "" >>

(* C20: a step of enableExtension, disableExtension or uninstallExtension *)
(* called with the manager's own id returns a failure, the message that   *)
(* the manager cannot enable, disable or uninstall itself, and leaves     *)
(* every plugin directory and every archive where it was.                 *)
C20_SelfProtected ==
    [][\A p \in Ops :
          (ops'[p] # ops[p] /\ ops'[p].id = selfId)
            => /\ ops'[p].pc = "done"
               /\ ops'[p].result.success = FALSE
               /\ ops'[p].result.message
                     = CASE ops'[p].op = "enable" -> "error.cannotEnableSelf"
                         [] ops'[p].op = "disable" -> "error.cannotDisableSelf"
                         [] OTHER -> "error.cannotUninstallSelf"
               /\ installed' = installed]_vars

(* The manager was told to uninstall itself while the disabling of the *)
(* other extension waited behind its scan: the call has its refusal as *)
(* result, and the manager's directory and archive are there.          *)
C20_Witness ==
    \E p \in Ops, q \in Ops :
        /\ ops[p].op = "uninstall" /\ ops[p].id = selfId /\ ops[p].pc = "done"
        /\ ops[p].result = Outcome(FALSE, "error.cannotUninstallSelf")
        /\ ops[q].op = "disable" /\ ops[q].pc = "found"
        /\ Has(deployedDir, managerDir)
        /\ Has(extensionsDir, VsixFileName(managerDir))

(* Call p ends with success in this step. *)
Succeeds(p, op) ==
    /\ ops[p].op = op /\ ops[p].pc # "done"
    /\ ops'[p].pc = "done" /\ ops'[p].result.success

(* Call p ends with a failure in this step, after its scan. *)
Fails(p, op) ==
    /\ ops[p].op = op /\ ops[p].pc = "found"
    /\ ops'[p].pc = "done" /\ ~ops'[p].result.success

(* The plugin directory d and its archive are after the step what the *)
(* disableExtension that moved them away had found.                   *)
BackAsParked(d) ==
    /\ Has(deployedDir', d) /\ deployedDir'[d] = parked[d].inside
    /\ Has(extensionsDir', VsixFileName(d)) = parked[d].vsix
    /\ ~Has(disabledDir', d)
    /\ ~Has(disabledDir', VsixFileName(d))

(* The step has moved the plugin directory d and its archive to the *)
(* disabled directory.                                              *)
MovedAway(d) ==
    /\ ~Has(deployedDir', d)
    /\ Has(disabledDir', d) /\ deployedDir[d] \subseteq disabledDir'[d]
    /\ ~Has(extensionsDir', VsixFileName(d))
    /\ Has(extensionsDir, VsixFileName(d)) => Has(disabledDir', VsixFileName(d))

RemainsAfter(id) ==
    \/ \E d \in PluginDirs :
          Packages[d].id = id /\ (Has(deployedDir', d) \/ Has(disabledDir', d))
    \/ \E f \in DOMAIN VsixIds :
          VsixIds[f] = id /\ (Has(extensionsDir', f) \/ Has(disabledDir', f))

(* C22: when an uninstallExtension that no other call overlapped returns *)
(* success, no deployed directory, no disabled directory and no archive  *)
(* of the extension is left.                                             *)
C22_UninstalledCompletely ==
    [][\A p \in Ops :
          (Succeeds(p, "uninstall") /\ ops[p].among = {})
            => ~RemainsAfter(ops[p].id)]_vars

(* The paths the uninstall.json of call p lists, directories first, that *)
(* exist before the step.                                                *)
ListedThere(p) ==
    LET config == Packages[ops[p].extension.deployedPath]
    IN SelectSeq(config.directories \o config.files, LAMBDA path : path \in configDirs)

(* After the step something is left of what the standard cleanup of call *)
(* p deletes: it has thrown.                                             *)
CleanupLeft(p) ==
    LET extension == ops[p].extension
        dirName == IF extension.deployedPath # NoPath THEN extension.deployedPath
                   ELSE extension.disabledPath
    IN \/ extension.deployedPath # NoPath /\ Has(deployedDir', extension.deployedPath)
       \/ extension.disabledPath # NoPath /\ Has(disabledDir', extension.disabledPath)
       \/ Has(extensionsDir', VsixFileName(dirName))
       \/ Has(disabledDir', VsixFileName(dirName))

(* What C23 has in every reading: the listed paths that exist are gone   *)
(* through in their order, whether the deletion of one fails or not, and *)
(* those that do not exist are passed over; the global state, the        *)
(* settings and the standard cleanup follow.                             *)
GoesOn(p) ==
    /\ (ops[p].pc = "found" /\ ops'[p].pc = "clearing")
         => /\ ops'[p].log = ListedThere(p) \o << "globalState" >>
            /\ ops'[p].failed \subseteq { ListedThere(p)[i] : i \in 1..Len(ListedThere(p)) }
            /\ \A i \in 1..Len(ListedThere(p)) :
                  ListedThere(p)[i] \in configDirs' <=> ListedThere(p)[i] \in ops'[p].failed
            /\ "globalState" \notin configDirs'
    /\ (ops[p].pc = "clearing" /\ ops'[p].pc = "done")
         => /\ ops'[p].log = ops[p].log \o << "settings", "standard" >>
            /\ "settings" \notin configDirs'
            /\ ~ops'[p].result.success => ops'[p].result.message = "error.deleteFailed"

(* C23 as stated: the uninstall goes on, and its result is a failure *)
(* exactly when a listed path could not be deleted.                  *)
C23_FailureIffListedFailed ==
    [][\A p \in Ops :
          /\ GoesOn(p)
          /\ (ops[p].pc = "clearing" /\ ops'[p].pc = "done")
               => (~ops'[p].result.success <=> ops[p].failed # {})]_vars

(* C23: the uninstall goes on, and its result is a failure exactly when *)
(* a listed path could not be deleted or the standard cleanup has       *)
(* thrown.                                                              *)
C23_GoesOnAfterFailure ==
    [][\A p \in Ops :
          /\ GoesOn(p)
          /\ (ops[p].pc = "clearing" /\ ops'[p].pc = "done")
               => (~ops'[p].result.success <=> (ops[p].failed # {} \/ CleanupLeft(p)))]_vars

(* The listed directory could not be deleted: the listed file is gone, *)
(* the global state and the settings are cleared, the plugin directory *)
(* is deleted, and the result is error.deleteFailed.                   *)
C23_Witness ==
    \E p \in Ops :
        /\ ops[p].op = "uninstall" /\ ops[p].pc = "done"
        /\ ops[p].failed = {toolConfigDir}
        /\ ops[p].log = << toolConfigDir, toolConfigFile, "globalState", "settings", "standard" >>
        /\ ops[p].result = Outcome(FALSE, "error.deleteFailed")
        /\ configDirs = {toolConfigDir}
        /\ ~Has(deployedDir, toolDir)

(* C27: a disableExtension or enableExtension that returns a failure has *)
(* left every plugin directory and every archive where it was and as it  *)
(* was.                                                                  *)
C27_FailureLeavesInPlace ==
    [][\A p \in Ops :
          (Fails(p, "disable") \/ Fails(p, "enable"))
            => UNCHANGED <<extensionsDir, deployedDir, disabledDir>>]_vars

(* Call q, for the same extension, was under way while call p was. *)
OverlappedBy(p, q, op) ==
    q \in ops[p].among /\ ops[q].id = ops[p].id /\ ops[q].op = op

(* The scan of call p found a plugin directory of the extension. *)
FoundDirectory(p) ==
    ops[p].extension.deployedPath # NoPath \/ ops[p].extension.disabledPath # NoPath

(* C28: when an uninstallExtension that found a plugin directory returns *)
(* success while a disableExtension or enableExtension for the same      *)
(* extension overlapped it, no deployed directory, no disabled directory *)
(* and no archive of the extension is left; and of two disableExtension  *)
(* calls for one extension that overlap, not both return success.        *)
C28_OverlapSafe ==
    [][\A p \in Ops :
          /\ (/\ Succeeds(p, "uninstall") /\ FoundDirectory(p)
              /\ \E q \in Ops : OverlappedBy(p, q, "disable") \/ OverlappedBy(p, q, "enable"))
               => ~RemainsAfter(ops[p].id)
          /\ \A q \in Ops :
               (Succeeds(p, "disable") /\ OverlappedBy(p, q, "disable"))
                 => ~(ops[q].pc = "done" /\ ops[q].result.success)]_vars

(* The archives and the plugin directories of the extension an archive *)
(* of this name is of: those of its name without the version.          *)
CopiesOf(fileName) ==
    { f \in ArchiveNames : parseVsixFilename(f).name = parseVsixFilename(fileName).name }

DirectoriesOf(fileName) ==
    { d \in PluginDirs : VsixFileName(d) \in CopiesOf(fileName) }

(* C26: an upgradeExtension during which no call of fs has thrown has   *)
(* returned status.upgraded, and after an upgradeExtension that has     *)
(* returned success the new archive is in the extensions directory, no  *)
(* other archive of the extension is, and no plugin directory of the    *)
(* extension is deployed or disabled.                                   *)
C26_UpgradeReplaces ==
    upgraded # NotUpgraded
      => /\ upgraded.fault = NoFault => upgraded.result = Outcome(TRUE, "status.upgraded")
         /\ upgraded.result.success
              => /\ Has(extensionsDir, upgraded.fileName)
                 /\ \A f \in CopiesOf(upgraded.fileName) \ {upgraded.fileName} :
                       ~Has(extensionsDir, f)
                 /\ \A d \in DirectoriesOf(upgraded.fileName) :
                       ~Has(deployedDir, d) /\ ~Has(disabledDir, d)

(* C29: what scanExtensions has returned holds no two entries of one id. *)
C29_OneEntryPerId ==
    listing.done
      => \A i \in 1..Len(listing.extensions), j \in 1..Len(listing.extensions) :
            listing.extensions[i].id = listing.extensions[j].id => i = j

(* The i-th numeric component of a version, 0 where there is none. *)
Component(version, i) ==
    IF i \in DOMAIN version /\ version[i] \in DOMAIN Numbers THEN Numbers[version[i]] ELSE 0

(* The first of two versions is lower by its first three components. *)
Lower(v1, v2) ==
    \E i \in 1..3 :
        /\ Component(v1, i) < Component(v2, i)
        /\ \A j \in 1..(i - 1) : Component(v1, j) = Component(v2, j)

(* The order of two versions as -1, 0 or 1. *)
Order(v1, v2) == IF Lower(v1, v2) THEN -1 ELSE IF Lower(v2, v1) THEN 1 ELSE 0

(* The installed archives of the extension of an archive, and those *)
(* among them that have a version.                                  *)
InstalledCopies(fileName) ==
    { f \in DOMAIN extensionsDir : parseVsixFilename(f).name = parseVsixFilename(fileName).name }

VersionedCopies(fileName) ==
    { f \in InstalledCopies(fileName) : parseVsixFilename(f).version # NoVersion }

(* C25: the action is reinstall where an archive of the same name is     *)
(* installed; otherwise install where no archive of the extension is     *)
(* installed; otherwise, where the new archive and an installed one have *)
(* versions, downgrade, reinstall or upgrade as the new version is       *)
(* lower than, equal to or higher than that of an installed one.         *)
(* compareVersions is the order by the first three numeric components,   *)
(* a missing one counting as 0, as -1, 0 or 1, and                       *)
(* compareVersions(a, b) = -compareVersions(b, a).                       *)
C25_ActionByVersion ==
    classified.done
      => /\ classified.forward = Order(versions[1], versions[2])
         /\ classified.forward \in {-1, 0, 1}
         /\ classified.forward = -classified.backward
         /\ Has(extensionsDir, archive) => classified.action = "reinstall"
         /\ InstalledCopies(archive) = {} => classified.action = "install"
         /\ (/\ ~Has(extensionsDir, archive)
             /\ parseVsixFilename(archive).version # NoVersion
             /\ VersionedCopies(archive) # {})
              => \E f \in VersionedCopies(archive) :
                    classified.action =
                       CASE Order(parseVsixFilename(archive).version,
                                  parseVsixFilename(f).version) = -1 -> "downgrade"
                         [] Order(parseVsixFilename(archive).version,
                                  parseVsixFilename(f).version) = 0 -> "reinstall"
                         [] OTHER -> "upgrade"

(* 1.1.0 is offered where 1.10.0 is installed: a downgrade. *)
C25_Witness ==
    /\ classified.done
    /\ archive = "vendor.tool-1.1.0.vsix"
    /\ DOMAIN extensionsDir = {"vendor.tool-1.10.0.vsix"}
    /\ classified.action = "downgrade"

(* C24: a step of installExtension leaves the extensions directory, the  *)
(* deployed and the disabled directory as they are; the result of the    *)
(* call is never a success; and where extractExtensionInfo has accepted  *)
(* the bundle the result is needsConfirmation with the action found,     *)
(* whatever the scan has found.                                          *)
C24_OnlyAnalyses ==
    [][\A p \in Calls :
          (calls'[p] # calls[p] /\ calls'[p].kind = "install")
            => /\ installed' = installed
               /\ calls'[p].pc = "done"
                    => /\ ~calls'[p].ret[1].success
                       /\ calls[p].pc \in {"s_resolved", "s_rejected"}
                            => /\ calls'[p].ret[1].message = "needsConfirmation"
                               /\ calls'[p].ret[1].action
                                    = IF Has(extensionsDir, basename(calls[p].path))
                                      THEN "reinstall" ELSE "install"]_vars

(* The bundle with eval( in it was offered under the name of an archive *)
(* that is installed: the answer is needsConfirmation with the action   *)
(* reinstall and a scan result that is not safe, and the installed      *)
(* archive is there as before.                                          *)
C24_Witness ==
    \E p \in Calls :
        /\ calls[p].kind = "install" /\ calls[p].pc = "done"
        /\ calls[p].ret[1].message = "needsConfirmation"
        /\ ~calls[p].ret[1].success
        /\ calls[p].ret[1].action = "reinstall"
        /\ ~calls[p].ret[1].scanResult[1].safe
        /\ Has(extensionsDir, "a.vsix")

(* The issues of one severity and one message key, in their order. *)
GroupOf(severity, key) ==
    SelectSeq(scanned.issues, LAMBDA i : i.severity = severity /\ i.message = key)

(* The first issues of the groups. *)
FirstIssues ==
    { GroupOf(scanned.issues[i].severity, scanned.issues[i].message)[1] :
        i \in 1..Len(scanned.issues) }

MainLines == SelectSeq(report, LAMBDA line : line.kind = "main")

=============================================================================
